---------------------------- MODULE Spec2Model ----------------------------
(***************************************************************************)
(* A model of archive-tools: the manifest diff, the archive builder with   *)
(* deduplication, the verifier, and the schedules of the backup driver.    *)
(*                                                                         *)
(* The module holds several specifications over one set of variables;     *)
(* each specification leaves the variables of the other parts at their     *)
(* idle values:                                                            *)
(*   SpecSched    the schedule chain and its base archives                 *)
(*   SpecDiff     diff_manifest() on two sorted manifests                  *)
(*   SpecArchive  Archive.create(), Archive.open() and Archive.verify()    *)
(*   SpecBackup   the runs of the backup driver on a changing directory    *)
(*   SpecVerify   Archive.verify() on tar files of a changed directory     *)
(*   SpecExtract  Archive.extract() into an empty directory                *)
(*   SpecChecksum the checksum algorithm of the diff command and driver    *)
(*   SpecReject   Archive.create() with paths that it rejects              *)
(*   SpecMetadata Archive.add_metadata() with names that collide           *)
(*   SpecWalk     iterpaths() with answers sent to the generator           *)
(*   SpecFileInfo FileInfo objects, their checksums, create(fileinfos=...) *)
(*   SpecProcess  the working directory and the umask around create()      *)
(*   SpecIndex    ArchiveIndex.add_archives() and the index command        *)
(*   SpecDate     ScheduleDate and the datetimes it contains               *)
(*   SpecSkip     the diff command with --skip-dir-content                 *)
(***************************************************************************)
EXTENDS Integers, Sequences, FiniteSets, TLC

VARIABLES
    chain,          \* the schedules built by get_schedule(), parent first
    idx,            \* get_prev_backups(): the index items, sorted by date
    schedule,       \* position in chain of the schedule asked, 0: none
    call,           \* which method was called on it: "none", "base", "child"
    base_archives,  \* what the call returned or raised
    manifest_a,     \* diff_manifest(): the first iterable of FileInfo
    manifest_b,     \* diff_manifest(): the second iterable of FileInfo
    diff,           \* the tuples diff_manifest() yielded; <<"pending">> before
    tree,           \* the file tree: the node of every path
    inodes,         \* the files of the tree: content, mode, mtime of an inode
    args,           \* the paths and the dedup mode given to Archive.create()
    arch,           \* the Archive object at hand
    tars,           \* the tar file of every archive path
    created,        \* for every tar file, how the create() that wrote it ended
    ret,            \* the last call on an Archive and what it raised
    backupdir,      \* the archives the backup driver wrote, oldest first
    run,            \* the run of the backup driver that has just ended
    heads,          \* the Checksums of the heads of the two manifests diffed
    manifest_yaml,  \* a manifest written to a file before a tar file is made
    targetdir,      \* the directory an archive is extracted to
    extracted,      \* the paths extract() has written, in the order it did
    registered,     \* the names given to add_metadata() of the Archive at hand
    walk,           \* a FileInfo.iterpaths() generator and what it yielded
    cls_Checksums,  \* the class attribute FileInfo.Checksums
    objs,           \* the FileInfo objects a caller holds in a list
    emitted,        \* the last call on these objects, and what create() wrote
    cwd,            \* os.getcwd(): the working directory of the process
    umask,          \* the umask of the process
    scopes,         \* the tmp_umask context managers entered, innermost last
    disk,           \* the archive files of a backup directory, by their paths
    added,          \* the last add_archives() on the index: what it was given
    schedule_date,  \* a ScheduleDate and the specification it was parsed from
    asked           \* the datetime last tested against it, and the answer

schedVars == <<chain, idx, schedule, call, base_archives>>
diffVars  == <<manifest_a, manifest_b, diff, heads>>
extractVars == <<manifest_yaml, targetdir, extracted>>
fiVars == <<cls_Checksums, objs, emitted>>
procVars == <<cwd, umask, scopes>>
indexVars == <<disk, added>>
dateVars == <<schedule_date, asked>>
toolVars == <<walk, fiVars, procVars, indexVars, dateVars>>
mdVars == <<registered, toolVars>>
archVars  == <<tree, inodes, args, arch, tars, created, ret, extractVars, mdVars>>
backupVars == <<backupdir, run>>
vars == <<schedVars, diffVars, archVars, backupVars>>

(***************************************************************************)
(* Python values: the result of a call is a value or a raised exception.   *)
(***************************************************************************)
Return(v) == [raised |-> "None", value |-> v]
Raise(e)  == [raised |-> e, value |-> <<>>]

Max(S) == CHOOSE x \in S : \A y \in S : y <= x

Range(f) == {f[i] : i \in DOMAIN f}

\* list.index(x): the position of the first element equal to x
ListIndex(l, x) == CHOOSE i \in 1..Len(l) : l[i] = x /\ \A j \in 1..(i-1) : l[j] # x

(***************************************************************************)
(* archive.bt.schedule: the schedule classes.                              *)
(***************************************************************************)
SubClasses == {"full", "cumu", "incr"}

\* The names get_schedule() reads from the configuration, in declared order.
ScheduleNames == <<"monthly", "weekly", "daily">>

\* for i in archives[p_idx+1:]: if i.schedule == name
After(archives, p_idx, name) ==
    {i \in (p_idx+1)..Len(archives) : archives[i].schedule = name}

FullSchedule_get_base_archives(archives) == Return(<<>>)

\* a changed FullSchedule.get_child_base_archives: the first archive found
FullSchedule_first(name, archives) ==
    LET found == After(archives, 0, name)
    IN  IF found # {}
        THEN Return(<<archives[CHOOSE i \in found : \A j \in found : i <= j]>>)
        ELSE Raise("NoFullBackupError")

FullSchedule_get_child_base_archives(name, archives) ==
    LET found == After(archives, 0, name)
    IN  IF found # {}
        THEN Return(<<archives[Max(found)]>>)
        ELSE Raise("NoFullBackupError")

\* a changed CumuSchedule_append: the first instead of the last archive found
CumuSchedule_append_first(name, archives, parent_base) ==
    LET p_idx == ListIndex(archives, parent_base[Len(parent_base)])
        found == After(archives, p_idx, name)
    IN  IF found # {}
        THEN Append(parent_base, archives[CHOOSE i \in found : \A j \in found : i <= j])
        ELSE parent_base

\* CumuSchedule.get_child_base_archives after the parent returned parent_base
CumuSchedule_append(name, archives, parent_base) ==
    LET p_idx == ListIndex(archives, parent_base[Len(parent_base)])
        found == After(archives, p_idx, name)
    IN  IF found # {}
        THEN Append(parent_base, archives[Max(found)])
        ELSE parent_base

\* a changed IncrSchedule_append: the archives before p_idx are taken as well
IncrSchedule_append_all(name, archives, parent_base) ==
    parent_base \o SelectSeq(archives, LAMBDA i : i.schedule = name)

\* IncrSchedule.get_base_archives after the parent returned parent_base
IncrSchedule_append(name, archives, parent_base) ==
    LET p_idx == ListIndex(archives, parent_base[Len(parent_base)])
    IN  parent_base \o
        SelectSeq(SubSeq(archives, p_idx + 1, Len(archives)),
                  LAMBDA i : i.schedule = name)

RECURSIVE get_child_base_archives(_, _, _)
get_child_base_archives(ch, k, archives) ==
    IF ch[k].cls = "full"
    THEN FullSchedule_get_child_base_archives(ch[k].name, archives)
    ELSE IF k = 1
    THEN Raise("AttributeError")      \* self.parent is None
    ELSE LET parent == get_child_base_archives(ch, k - 1, archives)
         IN  IF parent.raised # "None"
             THEN parent
             ELSE IF ch[k].cls = "cumu"
             THEN Return(CumuSchedule_append(ch[k].name, archives, parent.value))
             ELSE Return(IncrSchedule_append(ch[k].name, archives, parent.value))

get_base_archives(ch, k, archives) ==
    IF ch[k].cls = "full"
    THEN FullSchedule_get_base_archives(archives)
    ELSE IF ch[k].cls = "cumu"
    THEN IF k = 1
         THEN Raise("AttributeError")
         ELSE get_child_base_archives(ch, k - 1, archives)
    ELSE get_child_base_archives(ch, k, archives)

(***************************************************************************)
(* Paths.  A path is the tuple of its components; a component is a number  *)
(* standing for a file name, and names order as their numbers do.  pathlib *)
(* orders paths by their tuples of components.                             *)
(***************************************************************************)
RECURSIVE PathLess(_, _)
PathLess(p, q) ==
    IF q = <<>> THEN FALSE
    ELSE IF p = <<>> THEN TRUE
    ELSE IF Head(p) # Head(q) THEN Head(p) < Head(q)
    ELSE PathLess(Tail(p), Tail(q))

(***************************************************************************)
(* archive.manifest: FileInfo.  Attributes a FileInfo of the given type    *)
(* does not have are NoSize, NoChecksum, NoTarget.  mtime is a float, kept *)
(* here in half seconds: 0, 1, 2 are 0.0, 0.5 and 1.0.                     *)
(***************************************************************************)
NoSize     == -1
NoChecksum == [a \in {} |-> ""]
NoTarget   == <<>>
None       == [type |-> "None"]

FileInfo(path, type, mode, mtime, uid, uname, gid, gname, size, cs, target) ==
    [path |-> path, type |-> type, mode |-> mode, mtime |-> mtime,
     uid |-> uid, uname |-> uname, gid |-> gid, gname |-> gname,
     size     |-> IF type = "f" THEN size ELSE NoSize,
     checksum |-> IF type = "f" THEN cs ELSE NoChecksum,
     target   |-> IF type = "l" THEN target ELSE NoTarget]

\* int(mtime)
IntMtime(mtime) == mtime \div 2

\* FileInfo.Checksums
Checksums == <<"sha256">>

(***************************************************************************)
(* archive.manifest: diff_manifest.                                        *)
(***************************************************************************)
MetaDiffers(fi_a, fi_b) ==
    \/ fi_a.uid # fi_b.uid \/ fi_a.uname # fi_b.uname
    \/ fi_a.gid # fi_b.gid \/ fi_a.gname # fi_b.gname
    \/ fi_a.mode # fi_b.mode
    \/ IntMtime(fi_a.mtime) # IntMtime(fi_b.mtime)

ContentDiffers(fi_a, fi_b, algorithm) ==
    \/ fi_a.size # fi_b.size
    \/ fi_a.checksum[algorithm] # fi_b.checksum[algorithm]

\* a changed _match: mtime is compared as it is, not in whole seconds
_match_exact_mtime(fi_a, fi_b, algorithm) ==
    IF fi_a.type # fi_b.type THEN "TYPE"
    ELSE IF fi_a.type = "l" /\ fi_a.target # fi_b.target THEN "SYMLNK_TARGET"
    ELSE IF fi_a.type = "f" /\ ContentDiffers(fi_a, fi_b, algorithm)
    THEN "CONTENT"
    ELSE IF MetaDiffers(fi_a, fi_b) \/ fi_a.mtime # fi_b.mtime THEN "META"
    ELSE "MATCH"

\* a changed _match: the modification time counts only when the second
\* entry is the newer one
_match_newer(fi_a, fi_b, algorithm) ==
    IF fi_a.type # fi_b.type THEN "TYPE"
    ELSE IF fi_a.type = "l" /\ fi_a.target # fi_b.target THEN "SYMLNK_TARGET"
    ELSE IF fi_a.type = "f" /\ ContentDiffers(fi_a, fi_b, algorithm)
    THEN "CONTENT"
    ELSE IF MetaDiffers(fi_a, fi_b) /\ IntMtime(fi_a.mtime) <= IntMtime(fi_b.mtime)
    THEN "META"
    ELSE "MATCH"

_match(fi_a, fi_b, algorithm) ==
    IF fi_a.type # fi_b.type THEN "TYPE"
    ELSE IF fi_a.type = "l" /\ fi_a.target # fi_b.target THEN "SYMLNK_TARGET"
    ELSE IF fi_a.type = "f" /\ ContentDiffers(fi_a, fi_b, algorithm)
    THEN "CONTENT"
    ELSE IF MetaDiffers(fi_a, fi_b) THEN "META"
    ELSE "MATCH"

\* a changed diff_manifest: it ends when the first manifest is exhausted
RECURSIVE diff_manifest_short(_, _, _)
diff_manifest_short(a, b, algorithm) ==
    IF a = <<>> THEN <<>>
    ELSE IF b = <<>>
    THEN <<<<"MISSING_B", Head(a), None>>>> \o diff_manifest_short(Tail(a), b, algorithm)
    ELSE IF PathLess(Head(b).path, Head(a).path)
    THEN <<<<"MISSING_A", None, Head(b)>>>> \o diff_manifest_short(a, Tail(b), algorithm)
    ELSE IF PathLess(Head(a).path, Head(b).path)
    THEN <<<<"MISSING_B", Head(a), None>>>> \o diff_manifest_short(Tail(a), b, algorithm)
    ELSE <<<<"MATCH", Head(a), Head(b)>>>>
         \o diff_manifest_short(Tail(a), Tail(b), algorithm)

\* The generator, run to its end: the sequence of the tuples it yields.
RECURSIVE diff_manifest(_, _, _)
diff_manifest(a, b, algorithm) ==
    IF a = <<>> /\ b = <<>> THEN <<>>
    ELSE IF a = <<>>
    THEN <<<<"MISSING_A", None, Head(b)>>>> \o diff_manifest(a, Tail(b), algorithm)
    ELSE IF b = <<>>
    THEN <<<<"MISSING_B", Head(a), None>>>> \o diff_manifest(Tail(a), b, algorithm)
    ELSE IF PathLess(Head(b).path, Head(a).path)
    THEN <<<<"MISSING_A", None, Head(b)>>>> \o diff_manifest(a, Tail(b), algorithm)
    ELSE IF PathLess(Head(a).path, Head(b).path)
    THEN <<<<"MISSING_B", Head(a), None>>>> \o diff_manifest(Tail(a), b, algorithm)
    ELSE <<<<_match(Head(a), Head(b), algorithm), Head(a), Head(b)>>>>
         \o diff_manifest(Tail(a), Tail(b), algorithm)

(***************************************************************************)
(* The file system the archives are made from.  tree maps a path to its    *)
(* node: a directory, a symbolic link, a regular file (a link to an        *)
(* inode), or no entry; inodes holds what the hard links of a file share.  *)
(***************************************************************************)
NoEntry         == [type |-> "-"]
DirNode         == [type |-> "d"]
SymlinkNode(tg) == [type |-> "l", target |-> tg]
FileNode(i)     == [type |-> "f", ino |-> i]

\* len(content)
Size(content) == IF content = "" THEN 0 ELSE 4

\* hashlib.new(h).hexdigest() of the content, abbreviated; no two contents
\* of the model have one digest
hexdigest(h, content) ==
    IF h = "sha256"
    THEN (IF content = "" THEN "e3b0" ELSE IF content = "test" THEN "9f86" ELSE "0bd4")
    ELSE (IF content = "" THEN "d41d" ELSE IF content = "test" THEN "098f" ELSE "8fe0")

\* archive.tools.checksum
checksum(content, hashalg) == [h \in hashalg |-> hexdigest(h, content)]

\* os.lstat: the attributes of the node of a path
lstat(tr, ino, p) ==
    IF tr[p].type = "f"
    THEN [type |-> "f", mode |-> ino[tr[p].ino].mode, mtime |-> ino[tr[p].ino].mtime,
          st_ino |-> tr[p].ino, size |-> Size(ino[tr[p].ino].content),
          st_nlink |-> Cardinality({q \in DOMAIN tr :
                                      tr[q].type = "f" /\ tr[q].ino = tr[p].ino})]
    ELSE IF tr[p].type = "d"
    THEN [type |-> "d", mode |-> 493, mtime |-> 5]
    ELSE [type |-> "l", mode |-> 511, mtime |-> 4]

\* FileInfo(path=p); the checksum is what the property computes when read
FileInfoFromPath(tr, ino, p) ==
    LET st == lstat(tr, ino, p)
    IN  FileInfo(p, st.type, st.mode, st.mtime, 0, "root", 0, "root",
                 IF st.type = "f" THEN st.size ELSE NoSize,
                 IF st.type = "f"
                 THEN checksum(ino[tr[p].ino].content, Range(Checksums))
                 ELSE NoChecksum,
                 IF st.type = "l" THEN tr[p].target ELSE NoTarget)

IsBelow(q, p) == Len(q) > Len(p) /\ SubSeq(q, 1, Len(p)) = p

\* p.iterdir(): the entries of a directory; the order is the file system's,
\* here the descending one
RECURSIVE Descending(_)
Descending(S) ==
    IF S = {} THEN <<>>
    ELSE LET p == CHOOSE x \in S : \A y \in S : ~PathLess(x, y)
         IN  <<p>> \o Descending(S \ {p})

iterdir(tr, p) ==
    Descending({q \in DOMAIN tr :
                  IsBelow(q, p) /\ Len(q) = Len(p) + 1 /\ tr[q].type # "-"})

\* list(FileInfo.iterpaths(paths, excludes))
RECURSIVE iterpaths(_, _, _, _)
iterpaths(tr, ino, paths, excludes) ==
    IF paths = <<>> THEN <<>>
    ELSE LET p    == Head(paths)
             rest == iterpaths(tr, ino, Tail(paths), excludes)
         IN  IF p \in excludes THEN rest
             ELSE <<FileInfoFromPath(tr, ino, p)>>
                  \o (IF tr[p].type = "d"
                      THEN iterpaths(tr, ino, iterdir(tr, p), excludes)
                      ELSE <<>>)
                  \o rest

\* the fileinfos left as they were found
Manifest_sort_not(fileinfos) == fileinfos

\* Manifest.sort()
Manifest_sort(fileinfos) ==
    SortSeq(fileinfos, LAMBDA x, y : PathLess(x.path, y.path))

\* Manifest(paths=paths, excludes=excludes); Date, Generator are left out
Manifest_paths(tr, ino, paths, excludes) ==
    [head |-> [Checksums |-> Checksums, Metadata |-> <<>>, Version |-> "1.1"],
     fileinfos |-> Manifest_sort(iterpaths(tr, ino, paths, excludes))]

\* Manifest.add_metadata
Manifest_add_metadata(manifest, path) ==
    [manifest EXCEPT !.head.Metadata = Append(@, path)]

\* Manifest.find
Manifest_find(manifest, path) ==
    LET found == {i \in 1..Len(manifest.fileinfos) : manifest.fileinfos[i].path = path}
    IN  IF found = {} THEN None
        ELSE manifest.fileinfos[CHOOSE i \in found : \A j \in found : i <= j]

(***************************************************************************)
(* archive.archive: the Archive class, creating an archive.  The paths of  *)
(* the model are relative, so the name of a tar member is the path itself. *)
(* A tar file is the sequence of its members.                              *)
(***************************************************************************)
\* the file name ".manifest.yaml"
ManifestName == 0

NoPath    == <<>>
EmptyDict == [k \in {} |-> NoPath]
NoFile    == [exists |-> FALSE, members |-> <<>>]
TarFile(members) == [exists |-> TRUE, members |-> members]

DedupMode == {"NEVER", "LINK", "CONTENT"}

MetadataItem(name, path, fileobj, mode) ==
    [name |-> name, path |-> path, fileobj |-> fileobj, mode |-> mode]

TarInfo(name, type, mode, mtime, size, linkname, data) ==
    [name |-> name, type |-> type, mode |-> mode, mtime |-> mtime,
     size |-> size, linkname |-> linkname, data |-> data]

\* Archive.__init__
Archive_init ==
    [path |-> "", basedir |-> NoPath, manifest |-> None, _file |-> "",
     _metadata |-> <<>>, _dedup |-> "None", _dupindex |-> None]

\* Archive._arcname for a relative path: str(p)
_arcname(basedir, p) == p

\* Archive.add_metadata
Archive_add_metadata(self, name, fileobj, mode) ==
    LET path == IF self.basedir # NoPath THEN self.basedir \o <<name>> ELSE NoPath
    IN  [self EXCEPT !._metadata = <<MetadataItem(name, path, fileobj, mode)>> \o @]

\* the parts "/" and ".." of a path
Slash  == -1
DotDot == -2

\* p.is_absolute()
is_absolute(p) == p # <<>> /\ p[1] = Slash

\* _is_normalized(p) in a normalized working directory: the path has no
\* part ".." and no symbolic link above its last part
_is_normalized(tr, p) ==
    /\ \A i \in 1..Len(p) : p[i] # DotDot
    /\ \A k \in 1..(Len(p) - 1) :
          SubSeq(p, 1, k) \in DOMAIN tr => tr[SubSeq(p, 1, k)].type # "l"

\* self.path.name.split('.')[0]
ArchiveStem(path) == IF path = "a.tar" THEN 6 ELSE 7

\* the loop of _check_paths over the paths
RECURSIVE check_each(_, _, _, _)
check_each(tr, paths, abspath, basedir) ==
    IF paths = <<>> THEN "None"
    ELSE LET p == Head(paths)
         IN  IF ~_is_normalized(tr, p) THEN "ArchiveCreateError"
             ELSE IF abspath # is_absolute(p) THEN "ArchiveCreateError"
             ELSE IF ~is_absolute(p) /\ ~(p = basedir \/ IsBelow(p, basedir))
             THEN "ArchiveCreateError"
             ELSE check_each(tr, Tail(paths), abspath, basedir)

\* Archive._check_paths(paths, basedir) without excludes: what it raised and
\* self.basedir
_check_paths(self, tr, paths, basedir) ==
    IF paths = <<>> THEN [raised |-> "ArchiveCreateError", basedir |-> self.basedir]
    ELSE LET abspath == is_absolute(paths[1])
             bd == IF basedir # NoPath THEN basedir
                   ELSE IF abspath THEN <<ArchiveStem(self.path)>>
                   ELSE <<Head(paths[1])>>
         IN  IF is_absolute(bd)
             THEN [raised |-> "ArchiveCreateError", basedir |-> bd]
             ELSE [raised |-> check_each(tr, paths, abspath, bd), basedir |-> bd]

\* Archive._add_metadata_files: the members written, the names, the error
RECURSIVE _add_metadata_files(_, _, _)
_add_metadata_files(mds, md_names, members) ==
    IF mds = <<>>
    THEN [raised |-> "None", md_names |-> md_names, members |-> members]
    ELSE IF Head(mds).path \in md_names
    THEN [raised |-> "ArchiveCreateError", md_names |-> md_names, members |-> members]
    ELSE _add_metadata_files(
             Tail(mds), md_names \cup {Head(mds).path},
             Append(members, TarInfo(Head(mds).path, "REG", Head(mds).mode, 0,
                                     NoSize, NoPath, Head(mds).fileobj)))

\* an index key that is the inode in both modes
idxkey_inode(dedup, st, fileinfo) ==
    IF dedup \in {"LINK", "CONTENT"}
    THEN (IF dedup = "LINK" /\ st.st_nlink = 1 THEN None
          ELSE [st_dev |-> 0, st_ino |-> st.st_ino])
    ELSE None

\* the index key of a file in _check_duplicate, None for a file without key
idxkey(dedup, st, fileinfo) ==
    IF dedup = "LINK"
    THEN (IF st.st_nlink = 1 THEN None
          ELSE [st_dev |-> 0, st_ino |-> st.st_ino])
    ELSE IF dedup = "CONTENT"
    THEN (IF Len(Checksums) = 0 THEN None
          ELSE [digest |-> fileinfo.checksum[Checksums[1]]])
    ELSE None

\* a _check_duplicate that keeps the last name seen for a key
_check_duplicate_last(dedup, dupindex, st, fileinfo, name) ==
    LET key == idxkey(dedup, st, fileinfo)
    IN  IF key = None THEN [dup |-> NoPath, dupindex |-> dupindex]
        ELSE IF key \in DOMAIN dupindex
        THEN [dup |-> dupindex[key], dupindex |-> (key :> name) @@ dupindex]
        ELSE [dup |-> NoPath, dupindex |-> (key :> name) @@ dupindex]

\* Archive._check_duplicate: the name to link to (or NoPath), the new index
_check_duplicate(dedup, dupindex, st, fileinfo, name) ==
    LET key == idxkey(dedup, st, fileinfo)
    IN  IF key = None THEN [dup |-> NoPath, dupindex |-> dupindex]
        ELSE IF key \in DOMAIN dupindex
        THEN [dup |-> dupindex[key], dupindex |-> dupindex]
        ELSE [dup |-> NoPath, dupindex |-> (key :> name) @@ dupindex]

\* TarFile.gettarinfo(name, arcname): the header made from the file, and
\* the inodes the TarFile has seen
gettarinfo(tarf, tr, ino, p, arcname) ==
    LET st    == lstat(tr, ino, p)
        inode == [st_ino |-> st.st_ino, st_dev |-> 0]
        islnk == /\ st.st_nlink > 1
                 /\ inode \in DOMAIN tarf.inodes
                 /\ arcname # tarf.inodes[inode]
    IN  IF st.type = "f"
        THEN (IF islnk
              THEN [ti |-> TarInfo(arcname, "LNK", st.mode, st.mtime, 0,
                                   tarf.inodes[inode], ""),
                    inodes |-> tarf.inodes]
              ELSE [ti |-> TarInfo(arcname, "REG", st.mode, st.mtime, st.size,
                                   NoPath, ""),
                    inodes |-> (inode :> arcname) @@ tarf.inodes])
        ELSE IF st.type = "d"
        THEN [ti |-> TarInfo(arcname, "DIR", st.mode, st.mtime, 0, NoPath, ""),
              inodes |-> tarf.inodes]
        ELSE [ti |-> TarInfo(arcname, "SYM", st.mode, st.mtime, 0, tr[p].target, ""),
              inodes |-> tarf.inodes]

\* TarFile.addfile(ti, fileobj): the data of a member is read from the file
addfile(tarf, seen, ti, data) ==
    [members |-> Append(tarf.members, [ti EXCEPT !.data = data]), inodes |-> seen]

\* Archive._add_item: the TarFile and the index after fi is added
_add_item(dedup, dupindex, tarf, tr, ino, fi, arcname) ==
    LET g == gettarinfo(tarf, tr, ino, fi.path, arcname)
        d == _check_duplicate(dedup, dupindex, lstat(tr, ino, fi.path), fi, arcname)
    IN  IF fi.type = "f"
        THEN (IF d.dup # NoPath
              THEN [tarf |-> addfile(tarf, g.inodes,
                                     [g.ti EXCEPT !.type = "LNK", !.linkname = d.dup], ""),
                    dupindex |-> d.dupindex]
              ELSE [tarf |-> addfile(tarf, g.inodes,
                                     [g.ti EXCEPT !.size = fi.size, !.type = "REG",
                                                  !.linkname = NoPath],
                                     ino[tr[fi.path].ino].content),
                    dupindex |-> d.dupindex])
        ELSE [tarf |-> addfile(tarf, g.inodes, g.ti, ""), dupindex |-> dupindex]

\* a changed loop of _create: the names of the metadata are not reserved
RECURSIVE add_items_any(_, _, _, _, _, _, _, _)
add_items_any(fis, md_names, basedir, dedup, dupindex, tarf, tr, ino) ==
    IF fis = <<>>
    THEN [raised |-> "None", tarf |-> tarf, dupindex |-> dupindex]
    ELSE LET r == _add_item(dedup, dupindex, tarf, tr, ino, Head(fis),
                            _arcname(basedir, Head(fis).path))
         IN  add_items_any(Tail(fis), md_names, basedir, dedup, r.dupindex, r.tarf, tr, ino)

\* Archive._create: the loop over the manifest
RECURSIVE add_items(_, _, _, _, _, _, _, _)
add_items(fis, md_names, basedir, dedup, dupindex, tarf, tr, ino) ==
    IF fis = <<>>
    THEN [raised |-> "None", tarf |-> tarf, dupindex |-> dupindex]
    ELSE IF _arcname(basedir, Head(fis).path) \in md_names
    THEN [raised |-> "ArchiveCreateError", tarf |-> tarf, dupindex |-> dupindex]
    ELSE LET r == _add_item(dedup, dupindex, tarf, tr, ino, Head(fis),
                            _arcname(basedir, Head(fis).path))
         IN  add_items(Tail(fis), md_names, basedir, dedup, r.dupindex, r.tarf, tr, ino)

\* FileInfo.as_dict: size and checksum of files, the target of symlinks
as_dict(fi) ==
    LET d == [type |-> fi.type, path |-> fi.path, uid |-> fi.uid, uname |-> fi.uname,
              gid |-> fi.gid, gname |-> fi.gname, mode |-> fi.mode, mtime |-> fi.mtime]
    IN  IF fi.type = "f"
        THEN [size |-> fi.size, checksum |-> fi.checksum] @@ d
        ELSE IF fi.type = "l" THEN [target |-> fi.target] @@ d
        ELSE d

\* FileInfo(data=d)
FileInfoFromData(d) ==
    FileInfo(d.path, d.type, d.mode, d.mtime, d.uid, d.uname, d.gid, d.gname,
             IF d.type = "f" THEN d.size ELSE NoSize,
             IF d.type = "f" THEN d.checksum ELSE NoChecksum,
             IF d.type = "l" THEN d.target ELSE NoTarget)

\* Manifest.write: the two YAML documents
Manifest_write(manifest) ==
    [head |-> manifest.head,
     items |-> [i \in 1..Len(manifest.fileinfos) |-> as_dict(manifest.fileinfos[i])]]

\* Manifest(fileobj=fileobj)
Manifest_fileobj(doc) ==
    [head |-> doc.head,
     fileinfos |-> [i \in 1..Len(doc.items) |-> FileInfoFromData(doc.items[i])]]

\* Archive._create; tarfile.open(path, 'x:') fails when the file exists
_create(self, tr, ino, file) ==
    IF file.exists
    THEN [self |-> self, file |-> file, raised |-> "FileExistsError"]
    ELSE LET s1 == Archive_add_metadata(self, ManifestName,
                                        Manifest_write(self.manifest), 292)
             md == _add_metadata_files(s1._metadata, {}, <<>>)
             it == add_items(self.manifest.fileinfos, md.md_names, self.basedir,
                             self._dedup, self._dupindex,
                             [members |-> md.members, inodes |-> EmptyDict], tr, ino)
         IN  IF md.raised # "None"
             THEN [self |-> s1, file |-> TarFile(md.members), raised |-> md.raised]
             ELSE [self |-> [s1 EXCEPT !._dupindex = it.dupindex],
                   file |-> TarFile(it.tarf.members), raised |-> it.raised]

\* self.manifest.add_metadata(md.path) for every md
RECURSIVE add_all_metadata(_, _)
add_all_metadata(manifest, mds) ==
    IF mds = <<>> THEN manifest
    ELSE add_all_metadata(Manifest_add_metadata(manifest, Head(mds).path), Tail(mds))

\* a changed create: the tar file is opened before the paths are checked
Archive_create_early(self, tr, ino, file, path, paths, basedir, dedup) ==
    LET s1 == [self EXCEPT !.path = path, !._dedup = dedup, !._dupindex = EmptyDict]
        cp == _check_paths(s1, tr, paths, basedir)
        s2 == [s1 EXCEPT !.basedir = cp.basedir]
        m0 == Manifest_paths(tr, ino, paths, {})
        bd == Manifest_find(m0, cp.basedir)
        \* md.set_path(self.basedir)
        mds == [i \in 1..Len(self._metadata) |->
                   [self._metadata[i] EXCEPT
                       !.path = cp.basedir \o <<self._metadata[i].name>>]]
        m1 == add_all_metadata(
                  Manifest_add_metadata(m0, cp.basedir \o <<ManifestName>>), mds)
    IN  IF cp.raised # "None"
        THEN [self |-> s2, file |-> IF file.exists THEN file ELSE TarFile(<<>>),
              raised |-> cp.raised]
        ELSE IF bd # None /\ bd.type # "d"
        THEN [self |-> [s2 EXCEPT !.manifest = m0],
              file |-> IF file.exists THEN file ELSE TarFile(<<>>),
              raised |-> "ArchiveCreateError"]
        ELSE _create([s2 EXCEPT !.manifest = m1, !._metadata = mds], tr, ino, file)

\* Archive.create(path, paths=paths, basedir=basedir, dedup=dedup)
Archive_create(self, tr, ino, file, path, paths, basedir, dedup) ==
    LET s1 == [self EXCEPT !.path = path, !._dedup = dedup, !._dupindex = EmptyDict]
        cp == _check_paths(s1, tr, paths, basedir)
        s2 == [s1 EXCEPT !.basedir = cp.basedir]
        m0 == Manifest_paths(tr, ino, paths, {})
        bd == Manifest_find(m0, cp.basedir)
        \* md.set_path(self.basedir)
        mds == [i \in 1..Len(self._metadata) |->
                   [self._metadata[i] EXCEPT
                       !.path = cp.basedir \o <<self._metadata[i].name>>]]
        m1 == add_all_metadata(
                  Manifest_add_metadata(m0, cp.basedir \o <<ManifestName>>), mds)
    IN  IF cp.raised # "None"
        THEN [self |-> s2, file |-> file, raised |-> cp.raised]
        ELSE IF bd # None /\ bd.type # "d"
        THEN [self |-> [s2 EXCEPT !.manifest = m0], file |-> file,
              raised |-> "ArchiveCreateError"]
        ELSE _create([s2 EXCEPT !.manifest = m1, !._metadata = mds], tr, ino, file)

(***************************************************************************)
(* archive.archive: opening and verifying an archive                       *)
(***************************************************************************)
\* TarFile.getmember(name): the last member of the name, 0 for KeyError
getmember(members, name) ==
    LET found == {i \in 1..Len(members) : members[i].name = name}
    IN  IF found = {} THEN 0 ELSE Max(found)

\* TarFile.extractfile(members[i]): the data of a regular member; a link is
\* followed, a hard link to the last member of that name before it
RECURSIVE extractfile(_, _)
extractfile(members, i) ==
    LET ti     == members[i]
        before == {j \in 1..(i - 1) : members[j].name = ti.linkname}
        symtg  == getmember(members, SubSeq(ti.name, 1, Len(ti.name) - 1) \o ti.linkname)
    IN  IF ti.type = "REG" THEN Return(ti.data)
        ELSE IF ti.type = "LNK"
        THEN (IF before = {} THEN Raise("KeyError")
              ELSE extractfile(members, Max(before)))
        ELSE IF ti.type = "SYM"
        THEN (IF symtg = 0 THEN Raise("KeyError") ELSE extractfile(members, symtg))
        ELSE Return(None)

\* Archive.get_metadata(".manifest.yaml") in Archive.open
get_metadata(members, name) ==
    IF members[1].name[Len(members[1].name)] # name
    THEN Raise("ArchiveIntegrityError")
    ELSE Return(MetadataItem(name, members[1].name, members[1].data, members[1].mode))

\* Archive.open(path) of an existing tar file with a member
Archive_open(self, file, path) ==
    LET md == get_metadata(file.members, ManifestName)
    IN  IF ~file.exists THEN [self |-> self, raised |-> "ArchiveReadError"]
        ELSE IF md.raised # "None"
        THEN [self |-> [self EXCEPT !.path = path, !._file = path],
              raised |-> md.raised]
        ELSE [self |-> [self EXCEPT
                          !.path = path,
                          !._file = path,
                          !._metadata = Append(@, md.value),
                          !.basedir = SubSeq(md.value.path, 1, Len(md.value.path) - 1),
                          !.manifest = Manifest_fileobj(md.value.fileobj)],
              raised |-> "None"]

\* _check_condition and the other raises of _verify_item
Integrity(message) == [raised |-> "ArchiveIntegrityError", message |-> message]
Verified == [raised |-> "None", message |-> ""]

\* with self._file.extractfile(tarinfo) as f: the checksums are compared
_verify_checksum(members, i, fileinfo) ==
    LET f == extractfile(members, i)
    IN  IF f.raised # "None" THEN [raised |-> f.raised, message |-> ""]
        ELSE IF checksum(f.value, DOMAIN fileinfo.checksum) # fileinfo.checksum
        THEN Integrity("checksum does not match")
        ELSE Verified

\* a _verify_item that compares the size of hard links as well
_verify_item_size(members, basedir, fileinfo) ==
    LET i       == getmember(members, _arcname(basedir, fileinfo.path))
        tarinfo == members[i]
    IN  IF i = 0 THEN Integrity("missing")
        ELSE IF tarinfo.mode # fileinfo.mode THEN Integrity("wrong mode")
        ELSE IF IntMtime(tarinfo.mtime) # IntMtime(fileinfo.mtime)
        THEN Integrity("wrong modification time")
        ELSE IF fileinfo.type = "d"
        THEN (IF tarinfo.type = "DIR" THEN Verified
              ELSE Integrity("wrong type, expected directory"))
        ELSE IF fileinfo.type = "f"
        THEN (IF tarinfo.type \notin {"REG", "LNK"}
              THEN Integrity("wrong type, expected regular file")
              ELSE IF tarinfo.size # fileinfo.size THEN Integrity("wrong size")
              ELSE _verify_checksum(members, i, fileinfo))
        ELSE IF fileinfo.type = "l"
        THEN (IF tarinfo.type # "SYM"
              THEN Integrity("wrong type, expected symbolic link")
              ELSE IF tarinfo.linkname # fileinfo.target
              THEN Integrity("wrong link target")
              ELSE Verified)
        ELSE Integrity("invalid type")

\* Archive._verify_item: the error raised for fileinfo and its message
_verify_item(members, basedir, fileinfo) ==
    LET i       == getmember(members, _arcname(basedir, fileinfo.path))
        tarinfo == members[i]
    IN  IF i = 0 THEN Integrity("missing")
        ELSE IF tarinfo.mode # fileinfo.mode THEN Integrity("wrong mode")
        ELSE IF IntMtime(tarinfo.mtime) # IntMtime(fileinfo.mtime)
        THEN Integrity("wrong modification time")
        ELSE IF fileinfo.type = "d"
        THEN (IF tarinfo.type = "DIR" THEN Verified
              ELSE Integrity("wrong type, expected directory"))
        ELSE IF fileinfo.type = "f"
        THEN (IF tarinfo.type \notin {"REG", "LNK"}
              THEN Integrity("wrong type, expected regular file")
              ELSE IF tarinfo.type = "REG" /\ tarinfo.size # fileinfo.size
              THEN Integrity("wrong size")
              ELSE _verify_checksum(members, i, fileinfo))
        ELSE IF fileinfo.type = "l"
        THEN (IF tarinfo.type # "SYM"
              THEN Integrity("wrong type, expected symbolic link")
              ELSE IF tarinfo.linkname # fileinfo.target
              THEN Integrity("wrong link target")
              ELSE Verified)
        ELSE Integrity("invalid type")

\* a changed loop of verify: the last failing item is the one reported
verify_items_last(members, basedir, fis) ==
    LET bad  == {k \in 1..Len(fis) :
                    _verify_item(members, basedir, fis[k]).raised # "None"}
        last == CHOOSE k \in bad : \A j \in bad : j <= k
    IN  IF bad = {} THEN [raised |-> "None", item |-> NoPath, message |-> ""]
        ELSE [item |-> fis[last].path] @@ _verify_item(members, basedir, fis[last])

\* for fileinfo in self.manifest: self._verify_item(fileinfo)
verify_items(members, basedir, fis) ==
    LET bad   == {k \in 1..Len(fis) :
                     _verify_item(members, basedir, fis[k]).raised # "None"}
        first == CHOOSE k \in bad : \A j \in bad : k <= j
    IN  IF bad = {} THEN [raised |-> "None", item |-> NoPath, message |-> ""]
        ELSE [item |-> fis[first].path] @@ _verify_item(members, basedir, fis[first])

\* Archive.verify: the metadata items lead the tar file, in the order of the
\* manifest, then every item of the manifest is verified; next(tarf_it)
\* raises StopIteration at the end of the tar file
Archive_verify(self, file) ==
    IF self._file = ""
    THEN [raised |-> "ValueError", item |-> NoPath, message |-> "archive is closed."]
    ELSE
    LET metadata == self.manifest.head.Metadata
        members  == file.members
        badmd    == {k \in 1..Len(metadata) :
                        k > Len(members) \/ members[k].name # metadata[k]}
        firstmd  == CHOOSE k \in badmd : \A j \in badmd : k <= j
    IN  IF badmd # {}
        THEN (IF firstmd > Len(members)
              THEN [raised |-> "StopIteration", item |-> NoPath, message |-> ""]
              ELSE [raised |-> "ArchiveIntegrityError", item |-> metadata[firstmd],
                    message |-> "metadata item not found"])
        ELSE verify_items(members, self.basedir, self.manifest.fileinfos)

(***************************************************************************)
(* archive.archive: extracting an archive.  The target directory maps the  *)
(* paths below it to what was written there; making an entry in a          *)
(* directory sets the modification time of the directory to the time of    *)
(* the extraction.                                                         *)
(***************************************************************************)
\* time.time() while the archive is extracted, later than every mtime of it
ExtractTime == 9

Parent(p) == SubSeq(p, 1, Len(p) - 1)

\* the directory d gets or loses an entry
touch(fs, d) ==
    IF d \in DOMAIN fs THEN [fs EXCEPT ![d].mtime = ExtractTime] ELSE fs

\* a new entry of the file system
creat(fs, p, node) == touch((p :> node) @@ fs, Parent(p))

\* os.makedirs(upperdirs) if it does not exist
RECURSIVE makedirs(_, _)
makedirs(fs, d) ==
    IF d = <<>> \/ d \in DOMAIN fs THEN fs
    ELSE creat(makedirs(fs, Parent(d)), d, [type |-> "d", mtime |-> ExtractTime])

\* TarFile.extract(name, path=targetdir): the last member of the name is
\* written; makedir() passes an existing directory, utime() is not done for
\* symbolic links
tarfile_extract(fs, members, name) ==
    LET i    == getmember(members, name)
        ti   == members[i]
        fs1  == makedirs(fs, Parent(name))
        data == extractfile(members, i)
    IN  IF i = 0 THEN Raise("KeyError")
        ELSE IF ti.type = "DIR"
        THEN Return(IF name \in DOMAIN fs1
                    THEN [fs1 EXCEPT ![name].mtime = ti.mtime]
                    ELSE creat(fs1, name, [type |-> "d", mtime |-> ti.mtime]))
        ELSE IF ti.type = "REG"
        THEN Return(IF name \in DOMAIN fs1
                    THEN [fs1 EXCEPT ![name] = [type |-> "f", mtime |-> ti.mtime,
                                                content |-> ti.data]]
                    ELSE creat(fs1, name, [type |-> "f", mtime |-> ti.mtime,
                                           content |-> ti.data]))
        ELSE IF name \in DOMAIN fs1 THEN Raise("FileExistsError")
        ELSE IF ti.type = "SYM"
        THEN Return(creat(fs1, name, [type |-> "l", mtime |-> ExtractTime,
                                      target |-> ti.linkname]))
        ELSE IF data.raised # "None" THEN data
        ELSE Return(creat(fs1, name, [type |-> "f", mtime |-> ti.mtime,
                                      content |-> data.value]))

\* Archive.extract_member: the member is extracted, then os.utime
extract_member(fs, members, basedir, fi) ==
    LET arcname == _arcname(basedir, fi.path)
        r       == tarfile_extract(fs, members, arcname)
    IN  IF r.raised # "None" THEN r
        ELSE Return([r.value EXCEPT ![arcname].mtime = fi.mtime])

\* the calls of extract_member in the order of the list, up to the first
\* that raises: what was raised, the file system, the paths done
RECURSIVE extract_members(_, _, _, _, _)
extract_members(fs, members, basedir, fis, done) ==
    IF fis = <<>> THEN [raised |-> "None", fs |-> fs, done |-> done]
    ELSE LET r == extract_member(fs, members, basedir, Head(fis))
         IN  IF r.raised # "None"
             THEN [raised |-> r.raised, fs |-> fs, done |-> done]
             ELSE extract_members(r.value, members, basedir, Tail(fis),
                                  Append(done, Head(fis).path))

Reverse(l) == [i \in 1..Len(l) |-> l[Len(l) + 1 - i]]

\* every entry is extracted where it stands in the manifest
extract_order_manifest(fis) == fis

\* Archive.extract: the entries that are no directories, then the
\* directories popped from dirstack
extract_order(fis) ==
    SelectSeq(fis, LAMBDA fi : fi.type # "d")
    \o Reverse(SelectSeq(fis, LAMBDA fi : fi.type = "d"))

\* for mi in self.manifest.metadata: self._file.extract(mi, path=targetdir)
RECURSIVE extract_metadata(_, _, _)
extract_metadata(fs, members, names) ==
    IF names = <<>> THEN Return(fs)
    ELSE LET r == tarfile_extract(fs, members, Head(names))
         IN  IF r.raised # "None" THEN r
             ELSE extract_metadata(r.value, members, Tail(names))

\* Archive.extract(targetdir, inclmeta) into the file system fs
Archive_extract(self, file, fs, inclmeta) ==
    IF self.manifest = None
    THEN [raised |-> IF inclmeta THEN "AttributeError" ELSE "TypeError",
          fs |-> fs, done |-> <<>>]
    ELSE IF self._file = ""
    THEN [raised |-> "AttributeError", fs |-> fs, done |-> <<>>]
    ELSE LET md == IF inclmeta
                   THEN extract_metadata(fs, file.members, self.manifest.head.Metadata)
                   ELSE Return(fs)
         IN  IF md.raised # "None"
             THEN [raised |-> md.raised, fs |-> fs, done |-> <<>>]
             ELSE extract_members(md.value, file.members, self.basedir,
                                  extract_order(self.manifest.fileinfos), <<>>)

(***************************************************************************)
(* archive.bt.create: the backup driver.  An archive of the backup         *)
(* directory is the schedule and the date it was made for, and the         *)
(* manifest file it holds.                                                 *)
(***************************************************************************)
\* Manifest(fileinfos=fileinfos); the files carry their checksums
Manifest_fileinfos(fileinfos) ==
    [head |-> [Checksums |-> Checksums, Metadata |-> <<>>, Version |-> "1.1"],
     fileinfos |-> Manifest_sort(fileinfos)]

\* Archive().open(p).manifest for an archive of the backup directory
base_manifest(dir, path) ==
    Manifest_fileobj((CHOOSE a \in Range(dir) : a.path = path).manifest)

\* filter_fileinfos, run to its end
filter_fileinfos(base, fileinfos) ==
    LET d    == diff_manifest(base, fileinfos, Checksums[1])
        keep == SelectSeq(d, LAMBDA t : t[1] # "MISSING_B" /\ t[1] # "MATCH")
    IN  [i \in 1..Len(keep) |-> keep[i][3]]

\* a changed loop of get_fileinfos: only the last base archive is considered
RECURSIVE filter_bases_last(_, _, _)
filter_bases_last(bases, dir, fileinfos) ==
    IF bases = <<>> THEN fileinfos
    ELSE filter_fileinfos(
             base_manifest(dir, bases[Len(bases)].path).fileinfos,
             fileinfos)

\* the loop of get_fileinfos over the base archives
RECURSIVE filter_bases(_, _, _)
filter_bases(bases, dir, fileinfos) ==
    IF bases = <<>> THEN fileinfos
    ELSE filter_bases(
             Tail(bases), dir,
             filter_fileinfos(base_manifest(dir, Head(bases).path).fileinfos,
                              fileinfos))

\* a changed get_fileinfos: NoFullBackupError is not caught
get_fileinfos_uncaught(tr, ino, dirs, ch, k, index, dir) ==
    LET fileinfos     == Manifest_paths(tr, ino, dirs, {}).fileinfos
        bases == get_base_archives(ch, k, index)
    IN  IF bases.raised # "None" THEN bases
        ELSE Return(filter_bases(bases.value, dir, fileinfos))

\* get_fileinfos(config, schedule), the generator run to its end
get_fileinfos(tr, ino, dirs, ch, k, index, dir) ==
    LET fileinfos     == Manifest_paths(tr, ino, dirs, {}).fileinfos
        bases == get_base_archives(ch, k, index)
    IN  IF bases.raised = "NoFullBackupError" THEN Raise("ArchiveCreateError")
        ELSE IF bases.raised # "None" THEN bases
        ELSE Return(filter_bases(bases.value, dir, fileinfos))

\* the matchers of a component of a date: _DTMatcherAny, _DTMatcherValue,
\* _DTMatcherInterval and _DTMatcherList
DTMatcherAny == [kind |-> "any"]
DTMatcherValue(value) == [kind |-> "value", value |-> value]
DTMatcherInterval(i_min, i_max) == [kind |-> "interval", i_min |-> i_min, i_max |-> i_max]
DTMatcherList(dtms) == [kind |-> "list", dtms |-> dtms]

\* dtm.matches(value) of a matcher that is not a list
matches_one(dtm, value) ==
    IF dtm.kind = "any" THEN TRUE
    ELSE IF dtm.kind = "value" THEN value = dtm.value
    ELSE dtm.i_min <= value /\ value <= dtm.i_max

\* dtm.matches(value)
matches(dtm, value) ==
    IF dtm.kind = "list"
    THEN \E i \in 1..Len(dtm.dtms) : matches_one(dtm.dtms[i], value)
    ELSE matches_one(dtm, value)

_wd == [Mon |-> 1, Tue |-> 2, Wed |-> 3, Thu |-> 4, Fri |-> 5, Sat |-> 6, Sun |-> 7]

\* _SDTf.vlist
vlist(l) == IF Len(l) = 1 THEN l[1] ELSE DTMatcherList(l)

\* a mutant: the date is filled up on the right, as the time is
SDTf_date_right(l) ==
    l \o [i \in 1..(3 - Len(l)) |-> DTMatcherAny]

\* _SDTf.date: the components that are not given are any year and month
RECURSIVE SDTf_date(_)
SDTf_date(l) == IF Len(l) < 3 THEN SDTf_date(<<DTMatcherAny>> \o l) ELSE l

\* _SDTf.time: the components that are not given are any second
RECURSIVE SDTf_time(_)
SDTf_time(l) == IF Len(l) < 3 THEN SDTf_time(l \o <<DTMatcherAny>>) ELSE l

\* ScheduleDate(spec) of a date specification in its parts: the weekday or
\* none, the components of the date, the components of the time or none
ScheduleDate(weekday, date, time) ==
    LET wd == IF weekday = <<>> THEN DTMatcherAny ELSE weekday[1]
        d  == SDTf_date(date)
        t  == IF time = <<>> THEN <<DTMatcherAny, DTMatcherAny, DTMatcherAny>>
              ELSE SDTf_time(time)
    IN  [weekday |-> wd, year |-> d[1], month |-> d[2], day |-> d[3],
         hour |-> t[1], minute |-> t[2], second |-> t[3]]

\* dt in sd, ScheduleDate.__contains__
ScheduleDate_contains(sd, dt) ==
    /\ matches(sd.weekday, dt.weekday)
    /\ matches(sd.year, dt.year)
    /\ matches(sd.month, dt.month)
    /\ matches(sd.day, dt.day)
    /\ matches(sd.hour, dt.hour)
    /\ matches(sd.minute, dt.minute)
    /\ matches(sd.second, dt.second)

\* BaseSchedule.match_date
match_date(s, dt) == ScheduleDate_contains(s.date, dt)

\* a changed get_schedule: the last schedule that matches is selected
get_schedule_last(ch, now) ==
    LET matching == {k \in 1..Len(ch) : match_date(ch[k], now)}
    IN  IF matching = {} THEN 0 ELSE Max(matching)

\* the loop of get_schedule over the schedules, from schedule k on
RECURSIVE match_from(_, _, _)
match_from(ch, now, k) ==
    IF k > Len(ch) THEN 0
    ELSE IF match_date(ch[k], now) THEN k
    ELSE match_from(ch, now, k + 1)

\* get_schedule(config) at the time now: the number in the chain of the
\* schedule selected, 0 for None
get_schedule(ch, now) == match_from(ch, now, 1)

\* a changed create: an archive is written also when nothing is to archive
create_any(tr, ino, dirs, ch, now, index, dir, date) ==
    LET k == get_schedule(ch, now)
        fileinfos == get_fileinfos(tr, ino, dirs, ch, k, index, dir)
    IN  IF k = 0
        THEN [raised |-> "None", value |-> <<0>>, schedule |-> k,
              fileinfos |-> <<>>, written |-> <<>>]
        ELSE IF fileinfos.raised # "None"
        THEN [raised |-> fileinfos.raised, value |-> <<>>, schedule |-> k,
              fileinfos |-> <<>>, written |-> <<>>]
        ELSE [raised |-> "None", value |-> <<0>>, schedule |-> k,
              fileinfos |-> fileinfos.value,
              written |-> <<[path |-> date, date |-> date, schedule |-> ch[k].name,
                             manifest |-> Manifest_write(
                                              Manifest_fileinfos(fileinfos.value))]>>]

\* create(args, config) at the time now: what it raised, what it returned,
\* the schedule selected, the fileinfos given to Archive.create(), the
\* archive written
create(tr, ino, dirs, ch, now, index, dir, date) ==
    LET k == get_schedule(ch, now)
        fileinfos == get_fileinfos(tr, ino, dirs, ch, k, index, dir)
    IN  IF k = 0
        THEN [raised |-> "None", value |-> <<0>>, schedule |-> k,
              fileinfos |-> <<>>, written |-> <<>>]
        ELSE IF fileinfos.raised # "None"
        THEN [raised |-> fileinfos.raised, value |-> <<>>, schedule |-> k,
              fileinfos |-> <<>>, written |-> <<>>]
        ELSE IF fileinfos.value = <<>>
        THEN [raised |-> "None", value |-> <<0>>, schedule |-> k,
              fileinfos |-> <<>>, written |-> <<>>]
        ELSE [raised |-> "None", value |-> <<0>>, schedule |-> k,
              fileinfos |-> fileinfos.value,
              written |-> <<[path |-> date, date |-> date, schedule |-> ch[k].name,
                             manifest |-> Manifest_write(
                                              Manifest_fileinfos(fileinfos.value))]>>]

(***************************************************************************)
(* SpecDiff: two manifests sorted by path without duplicate paths, and the *)
(* diff of them.  The manifests are drawn from two families: manifests     *)
(* over all paths of a small tree with a few kinds of entries, and         *)
(* manifests of one entry that varies in every attribute.                  *)
(***************************************************************************)
MaxFiles == 2

\* "base" and the entries "base/1", "base/2", ... in it
Paths == {<<1>>} \cup {<<1, i>> : i \in 1..MaxFiles}

Modes   == {384, 420}
Mtimes  == {0, 1, 2}
Uids    == {0, 1000}
Unames  == {"root", "jdoe"}
Gids    == {0, 100}
Gnames  == {"root", "users"}
Sizes   == {0, 1}
Digests == {"e3b0", "9f86"}
Targets == {<<1, 1>>, <<1, 2>>}

Checksum(digest) == [a \in {Checksums[1]} |-> digest]

Metas ==
    [mode : Modes, mtime : Mtimes, uid : Uids, uname : Unames,
     gid : Gids, gname : Gnames]

WithMeta(path, type, m, size, cs, target) ==
    FileInfo(path, type, m.mode, m.mtime, m.uid, m.uname, m.gid, m.gname,
             size, cs, target)

\* every FileInfo of the path
AllInfos(path) ==
    {WithMeta(path, "d", m, NoSize, NoChecksum, NoTarget) : m \in Metas}
    \cup {WithMeta(path, "f", m, sz, Checksum(d), NoTarget) :
             m \in Metas, sz \in Sizes, d \in Digests}
    \cup {WithMeta(path, "l", m, NoSize, NoChecksum, tg) :
             m \in Metas, tg \in Targets}

\* a directory, a symbolic link, a file in two states of its content
FewKinds == {"d", "l", "f1", "f2"}

RootMeta ==
    [mode |-> 420, mtime |-> 0, uid |-> 0, uname |-> "root",
     gid |-> 0, gname |-> "root"]

FewInfo(path, kind) ==
    IF kind = "d" THEN WithMeta(path, "d", RootMeta, NoSize, NoChecksum, NoTarget)
    ELSE IF kind = "l"
    THEN WithMeta(path, "l", RootMeta, NoSize, NoChecksum, <<1, 1>>)
    ELSE WithMeta(path, "f", RootMeta, 1,
                  Checksum(IF kind = "f1" THEN "e3b0" ELSE "9f86"), NoTarget)

\* Manifest.sort(): the entries in ascending order of their paths
RECURSIVE SortByPath(_)
SortByPath(S) ==
    IF S = {} THEN <<>>
    ELSE LET fi == CHOOSE x \in S : \A y \in S : ~PathLess(y.path, x.path)
         IN  <<fi>> \o SortByPath(S \ {fi})

\* the sorted manifests that hold at most one entry for each path
FewManifests ==
    { SortByPath({FewInfo(q, kind[q]) : q \in Q}) :
        kind \in [Paths -> FewKinds], Q \in SUBSET Paths }

Pending == [raised |-> "pending", value |-> <<>>]

\* the Checksums of a manifest made with FileInfo.Checksums
DefaultHeads == <<Checksums, Checksums>>

\* no generator is at hand
FileInfoIdle ==
    /\ cls_Checksums = <<>>
    /\ objs = <<>>
    /\ emitted = <<>>

WalkIdle == walk = <<>>

ProcIdle ==
    /\ cwd = <<>>
    /\ umask = 0
    /\ scopes = <<>>

IndexIdle ==
    /\ disk = <<>>
    /\ added = <<>>

DateIdle ==
    /\ schedule_date = <<>>
    /\ asked = <<>>

ToolsIdle ==
    /\ WalkIdle
    /\ FileInfoIdle
    /\ ProcIdle
    /\ IndexIdle
    /\ DateIdle

DiffIdle ==
    /\ manifest_a = <<>>
    /\ manifest_b = <<>>
    /\ diff = Pending
    /\ heads = DefaultHeads

NoCall == [op |-> "none", raised |-> "None"]

ExtractIdle ==
    /\ manifest_yaml = <<>>
    /\ targetdir = <<>>
    /\ extracted = <<>>

ArchIdle ==
    /\ tree = <<>>
    /\ inodes = <<>>
    /\ args = <<>>
    /\ arch = Archive_init
    /\ registered = <<>>
    /\ ToolsIdle
    /\ tars = <<>>
    /\ created = <<>>
    /\ ret = NoCall
    /\ ExtractIdle

BackupIdle ==
    /\ backupdir = <<>>
    /\ run = NoCall

SchedIdle ==
    /\ chain = <<>>
    /\ idx = <<>>
    /\ schedule = 0
    /\ call = "none"
    /\ base_archives = Return(<<>>)

DiffInit ==
    /\ \/ /\ manifest_a \in FewManifests
          /\ manifest_b \in FewManifests
       \/ /\ manifest_a \in {<<fi>> : fi \in AllInfos(<<1, 1>>)}
          /\ manifest_b \in {<<fi>> : fi \in AllInfos(<<1, 1>>)}
    /\ diff = Pending
    /\ heads = DefaultHeads
    /\ SchedIdle
    /\ ArchIdle
    /\ BackupIdle

DiffManifest ==
    /\ diff = Pending
    /\ diff' = Return(diff_manifest(manifest_a, manifest_b, Checksums[1]))
    /\ UNCHANGED <<manifest_a, manifest_b, heads, schedVars, archVars, backupVars>>

DiffNext == DiffManifest

SpecDiff == DiffInit /\ [][DiffNext]_vars

(***************************************************************************)
(* SpecSched: a schedule chain, a growing list of prior archives, and the  *)
(* calls of get_base_archives / get_child_base_archives on the nodes.      *)
(***************************************************************************)
MaxArchives == 7

\* The chains of the model: a full schedule first, then any cumu and incr.
ChainClasses ==
    { <<"full">>,
      <<"full", "cumu">>, <<"full", "incr">>,
      <<"full", "cumu", "incr">>, <<"full", "incr", "cumu">>,
      <<"full", "cumu", "cumu">>, <<"full", "incr", "incr">> }

MkChain(cs) == [k \in 1..Len(cs) |-> [name |-> ScheduleNames[k], cls |-> cs[k]]]

\* the archive of a date has the date in its path
IndexItem(date, name) == [date |-> date, schedule |-> name, path |-> date]

SchedInit ==
    /\ chain \in {MkChain(cs) : cs \in ChainClasses}
    /\ idx = <<>>
    /\ schedule = 0
    /\ call = "none"
    /\ base_archives = Return(<<>>)
    /\ DiffIdle
    /\ ArchIdle
    /\ BackupIdle

\* a backup run of schedule k left an archive, and the index was updated
AddArchive(k) ==
    /\ Len(idx) < MaxArchives
    /\ idx' = Append(idx, IndexItem(Len(idx) + 1, ScheduleNames[k]))
    /\ schedule' = 0
    /\ call' = "none"
    /\ base_archives' = Return(<<>>)
    /\ UNCHANGED <<chain, diffVars, archVars, backupVars>>

GetBaseArchives(k) ==
    /\ schedule' = k
    /\ call' = "base"
    /\ base_archives' = get_base_archives(chain, k, idx)
    /\ UNCHANGED <<chain, idx, diffVars, archVars, backupVars>>

GetChildBaseArchives(k) ==
    /\ schedule' = k
    /\ call' = "child"
    /\ base_archives' = get_child_base_archives(chain, k, idx)
    /\ UNCHANGED <<chain, idx, diffVars, archVars, backupVars>>

SchedNext ==
    \/ \E k \in 1..Len(ScheduleNames) : AddArchive(k)
    \/ \E k \in 1..Len(chain) : GetBaseArchives(k)
    \/ \E k \in 1..Len(chain) : GetChildBaseArchives(k)

SpecSched == SchedInit /\ [][SchedNext]_vars

(***************************************************************************)
(* SpecArchive: a file tree, Archive objects that get metadata items,      *)
(* write the tree to tar files, open them again and verify them.  The      *)
(* tree does not change while the archives are made.                       *)
(***************************************************************************)
MaxItems    == 3
MaxMetadata == 2

BaseDir  == <<1>>
Items    == {BaseDir \o <<i>> : i \in 1..MaxItems}
TarPaths == {"a.tar", "b.tar"}

\* names of metadata items: the first is the name of an item of the tree
MetadataNames == {3, 8}

\* the trees of the model: a directory with files, some of them hard links
\* to each other, with empty directories and with symbolic links
NodesOf(p) ==
    IF p[Len(p)] = 1 THEN {DirNode, SymlinkNode(<<2>>), FileNode(1), FileNode(2)}
    ELSE {FileNode(1), FileNode(2)}

Trees ==
    { (BaseDir :> DirNode) @@ t :
        t \in {f \in [Items -> {DirNode, SymlinkNode(<<2>>), FileNode(1), FileNode(2)}] :
                 \A p \in Items : f[p] \in NodesOf(p)} }

\* inode 2 holds the content of inode 1 or another content of that size
InodeTables ==
    { (1 :> [content |-> "test", mode |-> 420, mtime |-> 2])
      @@ (2 :> [content |-> c, mode |-> 384, mtime |-> 3]) : c \in {"test", "tset"} }

\* the paths given to create(): the directory, some items of it in any
\* order, or the directory and one item of it again
PathArgs ==
    { <<BaseDir>>, <<BaseDir \o <<2>>, BaseDir \o <<1>>>>, <<BaseDir, BaseDir \o <<1>>>> }

ArchInit ==
    /\ tree \in Trees
    /\ inodes \in InodeTables
    /\ args \in [paths : PathArgs, basedir : {NoPath}, dedup : DedupMode]
    /\ arch = Archive_init
    /\ registered = <<>>
    /\ ToolsIdle
    /\ tars = [p \in TarPaths |-> NoFile]
    /\ created = [p \in TarPaths |-> "-"]
    /\ ret = NoCall
    /\ ExtractIdle
    /\ SchedIdle
    /\ DiffIdle
    /\ BackupIdle

\* archive = Archive()
NewArchive ==
    /\ arch' = Archive_init
    /\ registered' = <<>>
    /\ UNCHANGED toolVars
    /\ ret' = [op |-> "new", raised |-> "None"]
    /\ UNCHANGED <<tree, inodes, args, tars, created, schedVars, diffVars, backupVars, extractVars>>

\* archive.add_metadata(name, fileobj), before the archive is created; the
\* items are registered in the order of their names
AddMetadata(name) ==
    /\ arch.path = ""
    /\ Len(arch._metadata) < MaxMetadata
    /\ \A i \in 1..Len(arch._metadata) : arch._metadata[i].name < name
    /\ arch' = Archive_add_metadata(arch, name, "md", 292)
    /\ registered' = Append(registered, name)
    /\ UNCHANGED toolVars
    /\ ret' = [op |-> "add_metadata", raised |-> "None"]
    /\ UNCHANGED <<tree, inodes, args, tars, created, schedVars, diffVars, backupVars, extractVars>>

\* archive.create(path, paths=args.paths, basedir=args.basedir,
\* dedup=args.dedup) on an Archive
\* that has not opened a tar file; "b.tar" is written after "a.tar"
Create(path) ==
    LET r == Archive_create(arch, tree, inodes, tars[path], path, args.paths,
                            args.basedir, args.dedup)
    IN  /\ arch._file = ""
        /\ path = "b.tar" => created["a.tar"] = "None"
        /\ arch' = r.self
        /\ tars' = [tars EXCEPT ![path] = r.file]
        /\ created' = IF r.file = tars[path] THEN created
                      ELSE [created EXCEPT ![path] = r.raised]
        /\ ret' = [op |-> "create", raised |-> r.raised]
        /\ UNCHANGED <<tree, inodes, args, schedVars, diffVars, backupVars, extractVars, mdVars>>

\* Archive().open(path)
Open(path) ==
    LET r == Archive_open(arch, tars[path], path)
    IN  /\ arch = Archive_init
        /\ arch' = r.self
        /\ ret' = [op |-> "open", raised |-> r.raised]
        /\ UNCHANGED <<tree, inodes, args, tars, created, schedVars, diffVars, backupVars, extractVars, mdVars>>

\* archive.verify()
Verify ==
    /\ ret' = [op |-> "verify"] @@
               Archive_verify(arch, IF arch._file = "" THEN NoFile ELSE tars[arch._file])
    /\ UNCHANGED <<tree, inodes, args, arch, tars, created, schedVars, diffVars, backupVars, extractVars, mdVars>>

ArchNext ==
    \/ NewArchive
    \/ \E name \in MetadataNames : AddMetadata(name)
    \/ \E path \in TarPaths : Create(path)
    \/ \E path \in TarPaths : Open(path)
    \/ Verify

SpecArchive == ArchInit /\ [][ArchNext]_vars

(***************************************************************************)
(* SpecBackup: a directory whose files come, change and go, the runs of    *)
(* the backup driver on it for the schedules of a chain, and the updates   *)
(* of the index of the backup directory.                                   *)
(***************************************************************************)
MaxBackups == 3

BackupDirs  == <<BaseDir>>
BackupItems == {BaseDir \o <<1>>, BaseDir \o <<2>>}

\* "Mon *-*-2..8", "Mon *" and "*"
FirstMonday == ScheduleDate(<<DTMatcherValue(_wd.Mon)>>, <<DTMatcherAny, DTMatcherAny, DTMatcherInterval(2, 8)>>, <<>>)
AnyMonday   == ScheduleDate(<<DTMatcherValue(_wd.Mon)>>, <<DTMatcherAny>>, <<>>)
AnyDay      == ScheduleDate(<<>>, <<DTMatcherAny>>, <<>>)

\* the schedules of the configurations: full/cumu/incr and full/incr, each
\* date a part of the dates that follow it
BackupChains ==
    { <<[cls |-> "full", date |-> FirstMonday], [cls |-> "cumu", date |-> AnyMonday],
        [cls |-> "incr", date |-> AnyDay]>>,
      <<[cls |-> "full", date |-> FirstMonday], [cls |-> "incr", date |-> AnyMonday]>> }

\* the schedules of a configuration, named in the order of their declaration
MkSchedules(cs) ==
    [k \in 1..Len(cs) |-> [name |-> ScheduleNames[k], cls |-> cs[k].cls, date |-> cs[k].date]]

\* datetime.datetime.now() in the runs: a first Monday of a month, the
\* Wednesday after it, the Monday after it, all at 03:00:00
DateTime(weekday, day) ==
    [weekday |-> weekday, year |-> 2021, month |-> 10, day |-> day,
     hour |-> 3, minute |-> 0, second |-> 0]

Times == {DateTime(1, 4), DateTime(3, 6), DateTime(1, 11)}

\* what may be written to a file: the first item has two contents
ContentsOf(p) == IF p = BaseDir \o <<1>> THEN {"test", "tset"} ELSE {"test"}

BackupInit ==
    /\ chain \in {MkSchedules(cs) : cs \in BackupChains}
    /\ idx = <<>>
    /\ schedule = 0
    /\ call = "none"
    /\ base_archives = Return(<<>>)
    /\ tree = (BaseDir :> DirNode) @@ [p \in BackupItems |-> NoEntry]
    /\ inodes = [i \in 1..Cardinality(BackupItems) |->
                    [content |-> "test", mode |-> 420, mtime |-> 2]]
    /\ args = <<>>
    /\ arch = Archive_init
    /\ registered = <<>>
    /\ ToolsIdle
    /\ tars = <<>>
    /\ created = <<>>
    /\ ret = NoCall
    /\ ExtractIdle
    /\ backupdir = <<>>
    /\ run = NoCall
    /\ DiffIdle

\* a file is made, or written again with its modification time kept
WriteFile(p, content) ==
    /\ Len(backupdir) < MaxBackups
    /\ tree[p] # FileNode(p[2]) \/ inodes[p[2]].content # content
    /\ tree' = [tree EXCEPT ![p] = FileNode(p[2])]
    /\ inodes' = [inodes EXCEPT ![p[2]].content = content]
    /\ run' = NoCall
    /\ UNCHANGED <<schedVars, diffVars, args, arch, tars, created, ret, backupdir, extractVars, mdVars>>

\* a file is removed
Unlink(p) ==
    /\ Len(backupdir) < MaxBackups
    /\ tree[p] # NoEntry
    /\ tree' = [tree EXCEPT ![p] = NoEntry]
    /\ inodes' = [inodes EXCEPT ![p[2]].content = "test"]
    /\ run' = NoCall
    /\ UNCHANGED <<schedVars, diffVars, args, arch, tars, created, ret, backupdir, extractVars, mdVars>>

\* backup-tool create at the time now
BackupCreate(now) ==
    LET r == create(tree, inodes, BackupDirs, chain, now, idx, backupdir,
                    Len(backupdir) + 1)
    IN  /\ Len(backupdir) < MaxBackups
        /\ backupdir' = backupdir \o r.written
        /\ run' = [op |-> "create", raised |-> r.raised, value |-> r.value,
                   now |-> now, schedule |-> r.schedule,
                   archives |-> idx,
                   manifest |-> Manifest_paths(tree, inodes, BackupDirs, {}),
                   fileinfos |-> r.fileinfos, written |-> r.written]
        /\ UNCHANGED <<schedVars, diffVars, archVars>>

\* backup-tool index: the index holds the archives of the backup directory
UpdateIndex ==
    /\ Len(backupdir) < MaxBackups
    /\ Len(idx) # Len(backupdir)
    /\ idx' = [i \in 1..Len(backupdir) |->
                  IndexItem(backupdir[i].date, backupdir[i].schedule)]
    /\ run' = NoCall
    /\ UNCHANGED <<chain, schedule, call, base_archives, diffVars, archVars, backupdir>>

BackupNext ==
    \/ \E p \in BackupItems : \E content \in ContentsOf(p) : WriteFile(p, content)
    \/ \E p \in BackupItems : Unlink(p)
    \/ \E now \in Times : BackupCreate(now)
    \/ UpdateIndex

SpecBackup == BackupInit /\ [][BackupNext]_vars

(***************************************************************************)
(* SpecVerify: a manifest of a directory is written to a file, files of    *)
(* the directory change, a tar file is made of the manifest file and the   *)
(* directory as it is then, and the tar file is opened and verified.       *)
(***************************************************************************)
MaxChanges == 2

VerifyItems == {BaseDir \o <<1>>, BaseDir \o <<2>>}

\* a symbolic link, a directory or a file, and a file that may be a hard
\* link to the first
VerifyTrees ==
    { (BaseDir :> DirNode) @@ (BaseDir \o <<1>> :> n1) @@ (BaseDir \o <<2>> :> n2) :
        n1 \in {SymlinkNode(<<2>>), DirNode, FileNode(1)},
        n2 \in {FileNode(1), FileNode(2)} }

\* the second inode has the mode and the modification time of a directory
VerifyInodes ==
    (1 :> [content |-> "test", mode |-> 420, mtime |-> 2])
    @@ (2 :> [content |-> "test", mode |-> 493, mtime |-> 5])

\* the fixture test_data: the manifest of the directory, written to a file
test_data(tr, ino) ==
    Manifest_write(
        Manifest_add_metadata(Manifest_paths(tr, ino, <<BaseDir>>, {}),
                              BaseDir \o <<ManifestName>>))

\* sorted(os.listdir(p))
sorted_listdir(tr, p) == SortSeq(iterdir(tr, p), PathLess)

\* TarFile.add(name), recursively
RECURSIVE tarfile_add(_, _, _, _)
tarfile_add(tarf, tr, ino, names) ==
    IF names = <<>> THEN tarf
    ELSE LET p  == Head(names)
             g  == gettarinfo(tarf, tr, ino, p, p)
             t1 == addfile(tarf, g.inodes, g.ti,
                           IF g.ti.type = "REG" THEN ino[tr[p].ino].content ELSE "")
             t2 == IF tr[p].type = "d"
                   THEN tarfile_add(t1, tr, ino, sorted_listdir(tr, p))
                   ELSE t1
         IN  tarfile_add(t2, tr, ino, Tail(names))

\* create_archive of the tests: the manifest file, then the directory
create_archive(doc, tr, ino) ==
    LET manifest_info == TarInfo(BaseDir \o <<ManifestName>>, "REG", 292, 0,
                                 NoSize, NoPath, doc)
    IN  TarFile(tarfile_add([members |-> <<manifest_info>>, inodes |-> EmptyDict],
                            tr, ino, <<BaseDir>>).members)

\* the entries of the manifest file the directory does not have as they are
ChangedEntries(doc, tr, ino) ==
    {k \in 1..Len(doc.items) :
        \/ tr[doc.items[k].path].type = "-"
        \/ as_dict(FileInfoFromPath(tr, ino, doc.items[k].path)) # doc.items[k]}

VerifyInit ==
    /\ tree \in VerifyTrees
    /\ inodes = VerifyInodes
    /\ args = <<>>
    /\ arch = Archive_init
    /\ registered = <<>>
    /\ ToolsIdle
    /\ tars = [p \in TarPaths |-> NoFile]
    /\ created = [p \in TarPaths |-> "-"]
    /\ ret = NoCall
    /\ manifest_yaml = test_data(tree, inodes)
    /\ targetdir = <<>>
    /\ extracted = <<>>
    /\ SchedIdle
    /\ DiffIdle
    /\ BackupIdle

\* the directory changes before the tar file is made, in few entries
Changing ==
    /\ ~tars["a.tar"].exists
    /\ Cardinality(ChangedEntries(manifest_yaml, tree', inodes')) <= MaxChanges
    /\ UNCHANGED <<args, arch, tars, created, ret, manifest_yaml, targetdir, extracted, mdVars,
                   schedVars, diffVars, backupVars>>

\* path.unlink(), or path.rmdir(); the parent keeps its modification time
Remove(p) ==
    /\ tree[p].type # "-"
    /\ tree' = [tree EXCEPT ![p] = NoEntry]
    /\ inodes' = inodes
    /\ Changing

\* path.chmod(mode) on a file
Chmod(p, mode) ==
    /\ tree[p].type = "f"
    /\ inodes[tree[p].ino].mode # mode
    /\ inodes' = [inodes EXCEPT ![tree[p].ino].mode = mode]
    /\ tree' = tree
    /\ Changing

\* os.utime(path, times=(mtime, mtime)) on a file
Utime(p, mtime) ==
    /\ tree[p].type = "f"
    /\ inodes[tree[p].ino].mtime # mtime
    /\ inodes' = [inodes EXCEPT ![tree[p].ino].mtime = mtime]
    /\ tree' = tree
    /\ Changing

\* the file is written again; mode and modification time are restored
Rewrite(p, content) ==
    /\ tree[p].type = "f"
    /\ inodes[tree[p].ino].content # content
    /\ inodes' = [inodes EXCEPT ![tree[p].ino].content = content]
    /\ tree' = tree
    /\ Changing

\* path.unlink(); path.mkdir(): a directory takes the place of the file
MakeDir(p) ==
    /\ tree[p].type = "f"
    /\ tree' = [tree EXCEPT ![p] = DirNode]
    /\ inodes' = inodes
    /\ Changing

\* the symbolic link is made again with another target
Retarget(p, tg) ==
    /\ tree[p].type = "l"
    /\ tree[p].target # tg
    /\ tree' = [tree EXCEPT ![p] = SymlinkNode(tg)]
    /\ inodes' = inodes
    /\ Changing

\* create_archive(name)
WriteTar ==
    /\ ~tars["a.tar"].exists
    /\ tars' = [tars EXCEPT !["a.tar"] = create_archive(manifest_yaml, tree, inodes)]
    /\ UNCHANGED <<tree, inodes, args, arch, created, ret, extractVars, mdVars,
                   schedVars, diffVars, backupVars>>

VerifyNext ==
    \/ \E p \in VerifyItems : Remove(p)
    \/ \E p \in VerifyItems : \E mode \in {256, 420} : Chmod(p, mode)
    \/ \E p \in VerifyItems : \E mtime \in {2, 3, 6} : Utime(p, mtime)
    \/ \E p \in VerifyItems : \E content \in {"test", "tset", ""} : Rewrite(p, content)
    \/ \E p \in VerifyItems : MakeDir(p)
    \/ \E p \in VerifyItems : \E tg \in {<<2>>, <<3>>} : Retarget(p, tg)
    \/ WriteTar
    \/ \E path \in TarPaths : Open(path)
    \/ Verify

SpecVerify == VerifyInit /\ [][VerifyNext]_vars

(***************************************************************************)
(* SpecExtract: a directory with a subdirectory is archived, the archive   *)
(* is opened and extracted to an empty directory.                          *)
(***************************************************************************)
\* base, base/1 with base/1/1 in it if it is a directory, and the file base/2
ExtractTrees ==
    { (BaseDir :> DirNode) @@ (<<1, 1>> :> n1) @@ (<<1, 1, 1>> :> n11)
      @@ (<<1, 2>> :> n2) :
        n1  \in {DirNode, SymlinkNode(<<2>>), FileNode(1)},
        n11 \in {NoEntry, DirNode, FileNode(1), FileNode(2)},
        n2  \in {FileNode(1), FileNode(2)} }

\* the directory, or two entries of it
ExtractArgs == { <<BaseDir>>, <<<<1, 2>>, <<1, 1>>>> }

ExtractInit ==
    /\ tree \in {t \in ExtractTrees : t[<<1, 1>>] # DirNode => t[<<1, 1, 1>>] = NoEntry}
    /\ inodes \in InodeTables
    /\ args \in [paths : ExtractArgs, basedir : {NoPath}, dedup : DedupMode]
    /\ arch = Archive_init
    /\ registered = <<>>
    /\ ToolsIdle
    /\ tars = [p \in TarPaths |-> NoFile]
    /\ created = [p \in TarPaths |-> "-"]
    /\ ret = NoCall
    /\ ExtractIdle
    /\ SchedIdle
    /\ DiffIdle
    /\ BackupIdle

\* archive.extract(targetdir, inclmeta) to an empty directory
Extract(inclmeta) ==
    LET r == Archive_extract(arch, IF arch._file = "" THEN NoFile ELSE tars[arch._file],
                             <<>>, inclmeta)
    IN  /\ targetdir' = r.fs
        /\ extracted' = r.done
        /\ ret' = [op |-> "extract", raised |-> r.raised, inclmeta |-> inclmeta]
        /\ UNCHANGED <<tree, inodes, args, arch, tars, created, manifest_yaml,
                       schedVars, diffVars, backupVars, mdVars>>

ExtractNext ==
    \/ NewArchive
    \/ \E path \in TarPaths : Create(path)
    \/ \E path \in TarPaths : Open(path)
    \/ \E inclmeta \in BOOLEAN : Extract(inclmeta)

SpecExtract == ExtractInit /\ [][ExtractNext]_vars

(***************************************************************************)
(* SpecChecksum: two manifests whose heads list the checksum algorithms    *)
(* in use, each the manifest of a directory with one file, compared by     *)
(* the diff command and by the backup driver.                              *)
(***************************************************************************)
\* the Checksums of the heads
HeadLists == { <<"md5">>, <<"sha256">>, <<"md5", "sha256">>, <<"sha256", "md5">> }

FileContents == {"", "test", "tset"}

\* the fileinfos of a manifest with the Checksums in its head: the directory
\* and a file of it with the content
HeadManifest(checksums, content) ==
    << WithMeta(BaseDir, "d", RootMeta, NoSize, NoChecksum, NoTarget),
       WithMeta(BaseDir \o <<1>>, "f", RootMeta, Size(content),
                checksum(content, Range(checksums)), NoTarget) >>

\* the loop of _common_checksum from algorithm k of manifest_a.checksums on;
\* the name ArchiveReadError is not defined in archive.manifest
RECURSIVE common_from(_, _, _)
common_from(checksums_a, checksums_b, k) ==
    IF k > Len(checksums_a) THEN Raise("NameError")
    ELSE IF checksums_a[k] \in Range(checksums_b) THEN Return(checksums_a[k])
    ELSE common_from(checksums_a, checksums_b, k + 1)

\* _common_checksum(manifest_a, manifest_b)
_common_checksum(checksums_a, checksums_b) == common_from(checksums_a, checksums_b, 1)

\* fi.checksum[algorithm] raises KeyError in _match
LookupFails(fi_a, fi_b, algorithm) ==
    /\ fi_a.type = "f"
    /\ fi_b.type = "f"
    /\ fi_a.size = fi_b.size
    /\ algorithm \notin (DOMAIN fi_a.checksum) \cap (DOMAIN fi_b.checksum)

\* diff_manifest run to its end or to the KeyError of _match, for sorted
\* manifests that hold a path once
diff_manifest_run(a, b, algorithm) ==
    IF \E i \in 1..Len(a) : \E j \in 1..Len(b) :
           a[i].path = b[j].path /\ LookupFails(a[i], b[j], algorithm)
    THEN Raise("KeyError")
    ELSE Return(diff_manifest(a, b, algorithm))

\* the exit status of the diff command for a tuple of the diff
diff_status(t, report_meta) ==
    IF t[1] \in {"MISSING_A", "MISSING_B", "TYPE"} THEN 102
    ELSE IF t[1] \in {"SYMLNK_TARGET", "CONTENT"} THEN 101
    ELSE IF t[1] = "META" /\ report_meta THEN 100
    ELSE 0

\* archive-tool diff without --skip-dir-content: what it raised, the tuples
\* it reported, its exit status
cli_diff(manifest1, manifest2, checksums1, checksums2, report_meta) ==
    LET algorithm == _common_checksum(checksums1, checksums2)
        d == diff_manifest_run(manifest1, manifest2, algorithm.value)
    IN  IF algorithm.raised # "None" THEN algorithm @@ [status |-> 0]
        ELSE IF d.raised # "None" THEN d @@ [status |-> 0]
        ELSE d @@ [status |-> Max({0} \cup {diff_status(d.value[i], report_meta) :
                                               i \in 1..Len(d.value)})]

\* filter_fileinfos run to its end or to the KeyError of _match
filter_fileinfos_run(base, fileinfos) ==
    LET d == diff_manifest_run(base, fileinfos, Checksums[1])
    IN  IF d.raised # "None" THEN d ELSE Return(filter_fileinfos(base, fileinfos))

ChecksumInit ==
    /\ heads \in HeadLists \X HeadLists
    /\ manifest_a \in {HeadManifest(heads[1], c) : c \in FileContents}
    /\ manifest_b \in {HeadManifest(heads[2], c) : c \in FileContents}
    /\ diff = Pending
    /\ SchedIdle
    /\ ArchIdle
    /\ BackupIdle

\* archive-tool diff archive1 archive2
DiffCommand(report_meta) ==
    /\ diff' = [op |-> "diff"] @@
                cli_diff(manifest_a, manifest_b, heads[1], heads[2], report_meta)
    /\ UNCHANGED <<manifest_a, manifest_b, heads, schedVars, archVars, backupVars>>

\* filter_fileinfos(base.manifest, fileinfos) in the backup driver: the
\* second manifest is the one of the directory, made with FileInfo.Checksums
FilterFileinfos ==
    /\ heads[2] = Checksums
    /\ diff' = [op |-> "filter"] @@ filter_fileinfos_run(manifest_a, manifest_b)
    /\ UNCHANGED <<manifest_a, manifest_b, heads, schedVars, archVars, backupVars>>

ChecksumNext ==
    \/ \E report_meta \in BOOLEAN : DiffCommand(report_meta)
    \/ FilterFileinfos

SpecChecksum == ChecksumInit /\ [][ChecksumNext]_vars

(***************************************************************************)
(* SpecReject: create() is called with paths and a base directory that it  *)
(* rejects, and with some that it accepts, in a working directory with the *)
(* directory "base", the file "msg.txt" and the directory "other".         *)
(***************************************************************************)
MsgFile  == <<2>>
OtherDir == <<3>>

\* "base" holds two files
RejectTree ==
    (BaseDir :> DirNode) @@ (MsgFile :> FileNode(1)) @@ (OtherDir :> DirNode)
    @@ (OtherDir \o <<1>> :> FileNode(2))
    @@ [p \in Items |-> IF p[2] <= 2 THEN FileNode(p[2]) ELSE NoEntry]

\* paths and basedir that create() is to reject: no paths; an absolute
\* basedir; relative and absolute paths, either first; a path in "other";
\* "msg.txt" beside "base"; a path with ".."; "msg.txt" as the basedir
RejectArgs ==
    { [paths |-> <<>>, basedir |-> BaseDir],
      [paths |-> <<BaseDir>>, basedir |-> <<Slash>> \o BaseDir],
      [paths |-> <<BaseDir \o <<2>>, <<Slash>> \o BaseDir \o <<1>>>>, basedir |-> BaseDir],
      [paths |-> <<<<Slash>> \o BaseDir \o <<1>>, BaseDir \o <<2>>>>, basedir |-> NoPath],
      [paths |-> <<OtherDir \o <<1>>>>, basedir |-> BaseDir],
      [paths |-> <<BaseDir, MsgFile>>, basedir |-> NoPath],
      [paths |-> <<BaseDir, BaseDir \o <<DotDot>> \o MsgFile>>, basedir |-> BaseDir],
      [paths |-> <<MsgFile>>, basedir |-> MsgFile],
      [paths |-> <<MsgFile>>, basedir |-> NoPath] }

\* paths and basedir that create() accepts
AcceptArgs ==
    { [paths |-> <<BaseDir>>, basedir |-> NoPath],
      [paths |-> <<BaseDir>>, basedir |-> BaseDir],
      [paths |-> <<BaseDir \o <<2>>, BaseDir \o <<1>>>>, basedir |-> BaseDir] }

RejectInit ==
    /\ tree = RejectTree
    /\ inodes \in InodeTables
    /\ args \in { [paths |-> a.paths, basedir |-> a.basedir, dedup |-> d] :
                    a \in RejectArgs \cup AcceptArgs, d \in DedupMode }
    /\ arch = Archive_init
    /\ registered = <<>>
    /\ ToolsIdle
    /\ tars = [p \in TarPaths |-> NoFile]
    /\ created = [p \in TarPaths |-> "-"]
    /\ ret = NoCall
    /\ ExtractIdle
    /\ SchedIdle
    /\ DiffIdle
    /\ BackupIdle

SpecReject == RejectInit /\ [][ArchNext]_vars

(***************************************************************************)
(* SpecMetadata: metadata items of any names, the name of the manifest     *)
(* file and names of files of the directory among them, are registered in  *)
(* any order, a name twice too, and the archive is created.                *)
(***************************************************************************)
\* the names given to add_metadata(): ".manifest.yaml" and the custom names
RegisterNames == {ManifestName} \cup MetadataNames

\* "base" with a file, and with or without files that have the names of
\* metadata items
MetadataTrees ==
    { (BaseDir :> DirNode) @@ (BaseDir \o <<ManifestName>> :> m)
      @@ [p \in Items |-> IF p[2] = 1 THEN FileNode(1)
                          ELSE IF p[2] \in MetadataNames THEN t ELSE NoEntry] :
        m \in {FileNode(2), NoEntry}, t \in {FileNode(2), NoEntry} }

MetadataInit ==
    /\ tree \in MetadataTrees
    /\ inodes \in InodeTables
    /\ args = [paths |-> <<BaseDir>>, basedir |-> NoPath, dedup |-> "LINK"]
    /\ arch = Archive_init
    /\ registered = <<>>
    /\ ToolsIdle
    /\ tars = [p \in TarPaths |-> NoFile]
    /\ created = [p \in TarPaths |-> "-"]
    /\ ret = NoCall
    /\ ExtractIdle
    /\ SchedIdle
    /\ DiffIdle
    /\ BackupIdle

\* archive.add_metadata(name, fileobj) with any name, before the archive is
\* created
AddAnyMetadata(name) ==
    /\ arch.path = ""
    /\ Len(arch._metadata) < MaxMetadata
    /\ arch' = Archive_add_metadata(arch, name, "md", 292)
    /\ registered' = Append(registered, name)
    /\ UNCHANGED toolVars
    /\ ret' = [op |-> "add_metadata", raised |-> "None"]
    /\ UNCHANGED <<tree, inodes, args, tars, created, schedVars, diffVars, backupVars, extractVars>>

MetadataNext ==
    \/ NewArchive
    \/ \E name \in RegisterNames : AddAnyMetadata(name)
    \/ \E path \in TarPaths : Create(path)
    \/ \E path \in TarPaths : Open(path)
    \/ Verify

SpecMetadata == MetadataInit /\ [][MetadataNext]_vars

(***************************************************************************)
(* SpecWalk: FileInfo.iterpaths() as the generator it is.  The consumer    *)
(* resumes it with send(); the value sent is the value of the yield.  A    *)
(* frame is what the loop of one generator has still to visit; the frames  *)
(* of the nested generators are kept outermost first, and a value sent is  *)
(* passed by "yield from" to the innermost one.                            *)
(***************************************************************************)
\* what a consumer may send: next() sends None
Answers == {"None", "False", "True"}

\* the truth value of an answer
truth(v) == v = "True"

\* FileInfo.iterpaths(paths, excludes), not yet started
iterpaths_gen(paths, excludes) ==
    [state |-> "created", frames |-> <<paths>>, excludes |-> excludes,
     yielded |-> <<>>, sent |-> <<>>]

\* the loops run on to the next yield: the path yielded, or none at the end
RECURSIVE iterpaths_resume(_, _)
iterpaths_resume(frames, excludes) ==
    IF frames = <<>> THEN [frames |-> <<>>, p |-> <<>>]
    ELSE LET n   == Len(frames)
             top == frames[n]
         IN  IF top = <<>>
             THEN iterpaths_resume(SubSeq(frames, 1, n - 1), excludes)
             ELSE LET rest == [frames EXCEPT ![n] = Tail(top)]
                  IN  IF Head(top) \in excludes
                      THEN iterpaths_resume(rest, excludes)
                      ELSE [frames |-> rest, p |-> Head(top)]

\* a mutant: the value sent is not looked at
iterpaths_answer_not(tr, frames, info, v) ==
    IF info.type = "d" THEN Append(frames, iterdir(tr, info.path)) ELSE frames

\* the frames after the value v has come back from the yield of info
iterpaths_answer(tr, frames, info, v) ==
    IF truth(v) THEN frames
    ELSE IF info.type = "d" THEN Append(frames, iterdir(tr, info.path))
    ELSE frames

\* generator.send(v)
iterpaths_send(tr, ino, gen, v) ==
    LET frames == IF gen.state = "created" THEN gen.frames
                  ELSE iterpaths_answer(tr, gen.frames,
                                        gen.yielded[Len(gen.yielded)], v)
        sent   == IF gen.state = "created" THEN gen.sent ELSE Append(gen.sent, v)
        next   == iterpaths_resume(frames, gen.excludes)
    IN  IF next.p = <<>>
        THEN [gen EXCEPT !.state = "done", !.frames = <<>>, !.sent = sent]
        ELSE [gen EXCEPT !.state = "suspended", !.frames = next.frames,
                         !.sent = sent,
                         !.yielded = Append(@, FileInfoFromPath(tr, ino, next.p))]

WalkDir == <<1>>

WalkTrees ==
    { (WalkDir :> DirNode) @@ (<<1, 1>> :> n1) @@ (<<1, 2>> :> n2)
      @@ (<<1, 2, 1>> :> n21) @@ (<<1, 2, 2>> :> n22)
      @@ (<<1, 3>> :> n3) @@ (<<1, 3, 1>> :> n31) :
        n1  \in {NoEntry, FileNode(1)},
        n2  \in {DirNode, FileNode(2), SymlinkNode(<<1>>)},
        n21 \in {NoEntry, DirNode, FileNode(1)},
        n22 \in {NoEntry, FileNode(2)},
        n3  \in {NoEntry, DirNode},
        n31 \in {NoEntry, FileNode(1)} }

\* the entries of a directory are below a directory
WalkTree(t) ==
    /\ t[<<1, 2>>] # DirNode => t[<<1, 2, 1>>] = NoEntry /\ t[<<1, 2, 2>>] = NoEntry
    /\ t[<<1, 3>>] # DirNode => t[<<1, 3, 1>>] = NoEntry

\* the directory, or two entries of it
WalkArgs == { <<WalkDir>>, <<<<1, 2>>, <<1, 3>>>> }

WalkExcludes == { {}, {<<1, 2, 2>>} }

WalkInit ==
    /\ DateIdle
    /\ tree \in {t \in WalkTrees : WalkTree(t)}
    /\ inodes \in InodeTables
    /\ args \in {a \in [paths : WalkArgs, excludes : WalkExcludes] :
                    \A i \in 1..Len(a.paths) : tree[a.paths[i]].type # "-"}
    /\ walk = iterpaths_gen(args.paths, args.excludes)
    /\ FileInfoIdle
    /\ ProcIdle
    /\ IndexIdle
    /\ arch = Archive_init
    /\ registered = <<>>
    /\ tars = <<>>
    /\ created = <<>>
    /\ ret = NoCall
    /\ ExtractIdle
    /\ SchedIdle
    /\ DiffIdle
    /\ BackupIdle

\* file_iter.send(v); a generator just started takes None only, and a
\* generator that has ended raises StopIteration again
Send(v) ==
    /\ walk.state # "done"
    /\ walk.state = "created" => v = "None"
    /\ walk' = iterpaths_send(tree, inodes, walk, v)
    /\ UNCHANGED <<tree, inodes, args, arch, tars, created, ret, registered,
                   fiVars, procVars, indexVars, dateVars, extractVars, schedVars, diffVars,
                   backupVars>>

WalkNext == \E v \in Answers : Send(v)

SpecWalk == WalkInit /\ [][WalkNext]_vars

(***************************************************************************)
(* SpecFileInfo: FileInfo objects with the checksum they compute when it   *)
(* is asked for, the class attribute FileInfo.Checksums that callers set,  *)
(* and Archive.create() from the objects a caller supplies.  An object is  *)
(* the record of its attributes with _checksum and, for the claims, what   *)
(* it was made from and the number of times its file was read and hashed.  *)
(***************************************************************************)
\* FileInfo(path=p): a regular file gets _checksum = None
FileInfo_path(tr, ino, p) ==
    [_checksum |-> None, made |-> "path", hashed |-> 0]
    @@ FileInfoFromPath(tr, ino, p)

\* FileInfo(data=d)
FileInfo_data(d) ==
    [_checksum |-> IF d.type = "f" THEN d.checksum ELSE None,
     made |-> "data", hashed |-> 0]
    @@ FileInfoFromData(d)

\* a mutant: the file is hashed whenever the property is read
FileInfo_checksum_again(obj, content, hashalg) ==
    [obj EXCEPT !._checksum = checksum(content, Range(hashalg)),
                !.hashed = @ + 1]

\* the property FileInfo.checksum: the object after it was read
FileInfo_checksum(obj, content, hashalg) ==
    IF obj._checksum = None
    THEN [obj EXCEPT !._checksum = checksum(content, Range(hashalg)),
                     !.hashed = @ + 1]
    ELSE obj

\* the content of the file of an object
read_file(tr, ino, obj) == ino[tr[obj.path].ino].content

\* Manifest(fileinfos=...): the loop that looks for a missing checksum, from
\* item k on; it reads the property of every regular file it comes to
RECURSIVE missing_checksum(_, _, _, _, _)
missing_checksum(tr, ino, fis, cs, k) ==
    IF k > Len(fis) THEN [raised |-> "None", fileinfos |-> fis]
    ELSE IF fis[k].type # "f" THEN missing_checksum(tr, ino, fis, cs, k + 1)
    ELSE LET fi   == FileInfo_checksum(fis[k], read_file(tr, ino, fis[k]), cs)
             read == [fis EXCEPT ![k] = fi]
         IN  IF ~(Range(cs) \subseteq DOMAIN fi._checksum)
             THEN [raised |-> "ValueError", fileinfos |-> read]
             ELSE missing_checksum(tr, ino, read, cs, k + 1)

\* FileInfo.as_dict() of an object
obj_as_dict(tr, ino, obj, cs) ==
    IF obj.type = "f"
    THEN as_dict([obj EXCEPT !.checksum =
                     FileInfo_checksum(obj, read_file(tr, ino, obj), cs)._checksum])
    ELSE as_dict(obj)

\* Archive.create(path, fileinfos=fis) up to the manifest file it writes
create_fileinfos(tr, ino, fis, cs) ==
    LET checked == missing_checksum(tr, ino, fis, cs, 1)
        sorted  == Manifest_sort(checked.fileinfos)
    IN  IF checked.raised # "None"
        THEN [raised |-> "ArchiveCreateError", value |-> <<>>,
              fileinfos |-> checked.fileinfos]
        ELSE [raised |-> "None",
              value |-> [head |-> [Checksums |-> cs, Metadata |-> <<ManifestName>>,
                                   Version |-> "1.1"],
                         items |-> [i \in 1..Len(sorted) |->
                                       obj_as_dict(tr, ino, sorted[i], cs)]],
              fileinfos |-> checked.fileinfos]

\* list(FileInfo.iterpaths(paths, set()))
list_iterpaths(tr, ino, paths) ==
    LET fis == iterpaths(tr, ino, paths, {})
    IN  [i \in 1..Len(fis) |-> FileInfo_path(tr, ino, fis[i].path)]

\* the entries of a manifest that was written with the Checksums cs
read_manifest(tr, ino, paths, cs) ==
    LET fis == Manifest_sort(iterpaths(tr, ino, paths, {}))
    IN  [i \in 1..Len(fis) |->
            FileInfo_data(as_dict(
                IF fis[i].type = "f"
                THEN [fis[i] EXCEPT !.checksum =
                         checksum(ino[tr[fis[i].path].ino].content, Range(cs))]
                ELSE fis[i]))]

FileInfoTrees ==
    { (BaseDir :> DirNode) @@ (<<1, 1>> :> FileNode(1)) @@ (<<1, 2>> :> n2) :
        n2 \in {FileNode(2), SymlinkNode(<<1>>)} }

FileInfoInit ==
    /\ DateIdle
    /\ tree \in FileInfoTrees
    /\ inodes \in InodeTables
    /\ args = [paths |-> <<BaseDir>>]
    /\ cls_Checksums = Checksums
    /\ objs = <<>>
    /\ emitted = [op |-> "none"]
    /\ WalkIdle
    /\ ProcIdle
    /\ IndexIdle
    /\ arch = Archive_init
    /\ registered = <<>>
    /\ tars = <<>>
    /\ created = <<>>
    /\ ret = NoCall
    /\ ExtractIdle
    /\ SchedIdle
    /\ DiffIdle
    /\ BackupIdle

FileInfoRest ==
    UNCHANGED <<tree, inodes, args, arch, tars, created, ret, registered, walk,
                procVars, indexVars, dateVars, extractVars, schedVars, diffVars, backupVars>>

\* setattr(FileInfo, "Checksums", cs)
SetChecksums(cs) ==
    /\ cls_Checksums' = cs
    /\ emitted' = [op |-> "setattr"]
    /\ UNCHANGED objs
    /\ FileInfoRest

\* fileinfos = list(FileInfo.iterpaths(paths, set()))
ListPaths ==
    /\ objs' = list_iterpaths(tree, inodes, args.paths)
    /\ emitted' = [op |-> "iterpaths"]
    /\ UNCHANGED cls_Checksums
    /\ FileInfoRest

\* fileinfos = the entries of the manifest of an archive made with cs
ReadManifest(cs) ==
    /\ objs' = read_manifest(tree, inodes, args.paths, cs)
    /\ emitted' = [op |-> "manifest"]
    /\ UNCHANGED cls_Checksums
    /\ FileInfoRest

\* fileinfos[k].checksum
ReadChecksum(k) ==
    /\ k \in 1..Len(objs)
    /\ objs[k].type = "f"
    /\ objs' = [objs EXCEPT ![k] = FileInfo_checksum(
                    @, read_file(tree, inodes, @), cls_Checksums)]
    /\ emitted' = [op |-> "checksum", k |-> k]
    /\ UNCHANGED cls_Checksums
    /\ FileInfoRest

\* Archive().create(path, fileinfos=fileinfos)
CreateFileinfos ==
    /\ objs # <<>>
    /\ LET r == create_fileinfos(tree, inodes, objs, cls_Checksums)
       IN  /\ emitted' = [op |-> "create", raised |-> r.raised, value |-> r.value,
                           Checksums |-> cls_Checksums]
           /\ objs' = r.fileinfos
    /\ UNCHANGED cls_Checksums
    /\ FileInfoRest

FileInfoNext ==
    \/ \E cs \in HeadLists : SetChecksums(cs)
    \/ ListPaths
    \/ \E cs \in HeadLists : ReadManifest(cs)
    \/ \E k \in 1..3 : ReadChecksum(k)
    \/ CreateFileinfos

SpecFileInfo == FileInfoInit /\ [][FileInfoNext]_vars

(***************************************************************************)
(* SpecProcess: the working directory and the umask of the process, which  *)
(* Archive.create(workdir=...) and the tmp_umask context managers change   *)
(* and put back.  There are two tmp_umask: the class of archive/tools.py   *)
(* and the generator of src/archive/tools.py that the backup driver uses.  *)
(* The tree is the one below the directory that create() works in.         *)
(***************************************************************************)
MaxScopes == 2

HomeDir    == <<Slash, 7>>
WorkDir    == <<Slash, 8>>
MissingDir == <<Slash, 9>>

\* 0, 0o022, 0o077
Umasks == {0, 18, 63}

\* 0o077 and 0o277, the masks of mailarchive and of the backup driver
Masks == {63, 191}

\* finally: if save_wd: os.chdir(save_wd)
chdir_back(now, save_wd, raised) ==
    IF save_wd # None /\ save_wd # <<>> THEN save_wd ELSE now

\* Archive.create(path, paths=paths, basedir=basedir, workdir=workdir) in a
\* process with the working directory wd
create_workdir(self, tr, ino, file, path, a, wd, workdir) ==
    LET save_wd == IF workdir # <<>> THEN wd ELSE None
    IN  IF workdir = MissingDir
        THEN [self |-> self, file |-> file, raised |-> "FileNotFoundError",
              cwd |-> chdir_back(wd, save_wd, "FileNotFoundError")]
        ELSE [cwd |-> chdir_back(IF workdir # <<>> THEN workdir ELSE wd,
                                 save_wd, "None")]
             @@ Archive_create(self, tr, ino, file, path, a.paths, a.basedir,
                               a.dedup)

\* tmp_umask.__enter__, and the generator up to its yield
tmp_umask_enter(kind, mask, now) ==
    [kind |-> kind, mask |-> mask, save_mask |-> now]

\* the umask after tmp_umask is left: _restore_mask of the class, the
\* finally clause of the generator
tmp_umask_exit(scope, now) ==
    IF scope.kind = "class"
    THEN IF scope.save_mask # 0 THEN scope.save_mask ELSE now
    ELSE scope.save_mask

\* arguments that create() accepts, and arguments that make it raise
\* ArchiveCreateError
ProcArgs ==
    { [paths |-> a.paths, basedir |-> a.basedir, dedup |-> "LINK"] :
        a \in RejectArgs \cup AcceptArgs }

ProcInit ==
    /\ DateIdle
    /\ tree = RejectTree
    /\ inodes \in InodeTables
    /\ args \in ProcArgs
    /\ arch = Archive_init
    /\ registered = <<>>
    /\ WalkIdle
    /\ FileInfoIdle
    /\ IndexIdle
    /\ cwd = HomeDir
    /\ umask \in Umasks
    /\ scopes = <<>>
    /\ tars = [p \in TarPaths |-> NoFile]
    /\ created = [p \in TarPaths |-> "-"]
    /\ ret = NoCall
    /\ ExtractIdle
    /\ SchedIdle
    /\ DiffIdle
    /\ BackupIdle

\* Archive().create(path, paths=..., basedir=..., workdir=workdir)
CreateWorkdir(path, workdir) ==
    \E r \in {create_workdir(Archive_init, tree, inodes, tars[path], path, args,
                             cwd, workdir)} :
        /\ arch' = r.self
        /\ tars' = [tars EXCEPT ![path] = r.file]
        /\ created' = IF r.file = tars[path] THEN created
                      ELSE [created EXCEPT ![path] = r.raised]
        /\ cwd' = r.cwd
        /\ ret' = [op |-> "create", raised |-> r.raised, workdir |-> workdir,
                   before |-> cwd]
        /\ UNCHANGED <<tree, inodes, args, registered, walk, fiVars, umask, scopes,
                       indexVars, dateVars, extractVars, schedVars, diffVars, backupVars>>

\* with tmp_umask(mask): the scope is entered
EnterUmask(kind, mask) ==
    /\ Len(scopes) < MaxScopes
    /\ scopes' = Append(scopes, tmp_umask_enter(kind, mask, umask))
    /\ umask' = mask
    /\ ret' = [op |-> "enter", raised |-> "None"]
    /\ UNCHANGED <<tree, inodes, args, arch, tars, created, registered, walk,
                   fiVars, cwd, indexVars, dateVars, extractVars, schedVars, diffVars,
                   backupVars>>

\* the innermost scope is left, by the end of its block or by an exception
LeaveUmask(raised) ==
    /\ scopes # <<>>
    /\ umask' = tmp_umask_exit(scopes[Len(scopes)], umask)
    /\ scopes' = SubSeq(scopes, 1, Len(scopes) - 1)
    /\ ret' = [op |-> "exit", raised |-> raised,
               kind |-> scopes[Len(scopes)].kind,
               before |-> scopes[Len(scopes)].save_mask]
    /\ UNCHANGED <<tree, inodes, args, arch, tars, created, registered, walk,
                   fiVars, cwd, indexVars, dateVars, extractVars, schedVars, diffVars,
                   backupVars>>

ProcNext ==
    \/ \E path \in TarPaths, workdir \in {NoPath, WorkDir, MissingDir} :
          CreateWorkdir(path, workdir)
    \/ \E kind \in {"class", "contextmanager"}, mask \in Masks :
          EnterUmask(kind, mask)
    \/ \E raised \in {"None", "ArchiveCreateError"} : LeaveUmask(raised)

SpecProcess == ProcInit /\ [][ProcNext]_vars

(***************************************************************************)
(* SpecIndex: the index of a backup directory.  The archive files of the   *)
(* directory come, are replaced and go; add_archives() and the index       *)
(* command bring the index up to date.  A file is the date and the         *)
(* schedule tag in the head of its manifest.  One more name in the         *)
(* directory is a symbolic link to the first file.                         *)
(***************************************************************************)
IndexPaths == {1, 2}

\* a symbolic link to the file 1
LinkPath == 3

\* Path.resolve()
resolve(p) == IF p = LinkPath THEN 1 ELSE p

NoArchive == [date |-> 0]

ArchiveHeads ==
    { [date |-> 1, schedule |-> "incr"], [date |-> 2, schedule |-> "full"] }

\* IndexItem(archive=archive) of the archive opened at the path
IndexItem_archive(path, archive) ==
    [date |-> archive.date, schedule |-> archive.schedule, path |-> path]

\* a mutant: nothing is looked up, every path given is opened and added
Index_find_none(items, path) == None

\* ArchiveIndex.find(path): the first item of the path, or None
Index_find(items, path) ==
    LET found == {i \in 1..Len(items) : items[i].path = path}
    IN  IF found = {} THEN None
        ELSE items[CHOOSE i \in found : \A j \in found : i <= j]

\* the loop of add_archives from the path k on: the items, the paths seen
\* and the paths opened; opening a path with no archive file fails
RECURSIVE add_from(_, _, _, _, _, _)
add_from(files, items, paths, seen, opened, k) ==
    IF k > Len(paths)
    THEN [raised |-> "None", items |-> items, seen |-> seen, opened |-> opened]
    ELSE LET p == resolve(paths[k])
         IN  IF Index_find(items, p) # None
             THEN add_from(files, items, paths, seen \cup {p}, opened, k + 1)
             ELSE IF files[p] = NoArchive
             THEN [raised |-> "FileNotFoundError", items |-> items,
                   seen |-> seen \cup {p}, opened |-> Append(opened, p)]
             ELSE add_from(files, Append(items, IndexItem_archive(p, files[p])),
                           paths, seen \cup {p}, Append(opened, p), k + 1)

\* ArchiveIndex.add_archives(paths, prune)
add_archives(files, items, paths, prune) ==
    LET r == add_from(files, items, paths, {}, <<>>, 1)
    IN  IF r.raised = "None" /\ prune
        THEN [r EXCEPT !.items = SelectSeq(r.items, LAMBDA i : i.path \in r.seen)]
        ELSE r

\* ArchiveIndex.sort(): list.sort(key=date) keeps the order of equal dates
RECURSIVE Index_sort(_)
Index_sort(items) ==
    IF items = <<>> THEN <<>>
    ELSE LET first == CHOOSE i \in 1..Len(items) :
                          /\ \A j \in 1..Len(items) : items[i].date <= items[j].date
                          /\ \A j \in 1..(i - 1) : items[j].date # items[i].date
         IN  <<items[first]>>
             \o Index_sort([j \in 1..(Len(items) - 1) |->
                               IF j < first THEN items[j] ELSE items[j + 1]])

\* the path lists that add_archives() is given
RECURSIVE PathLists(_)
PathLists(n) ==
    IF n = 0 THEN {<<>>}
    ELSE LET shorter == PathLists(n - 1)
         IN  shorter \cup {Append(l, p) : l \in {s \in shorter : Len(s) = n - 1},
                                          p \in IndexPaths \cup {LinkPath}}

MaxPaths == 2

\* config.backupdir.glob("*.tar*"), in an order of the file system
glob(files) ==
    LET found == {p \in IndexPaths : files[p] # NoArchive}
    IN  {l \in [1..Cardinality(found) -> found] :
            \A i, j \in DOMAIN l : i # j => l[i] # l[j]}

IndexInit ==
    /\ DateIdle
    /\ chain = <<>>
    /\ idx = <<>>
    /\ schedule = 0
    /\ call = "none"
    /\ base_archives = Return(<<>>)
    /\ disk \in [IndexPaths -> {NoArchive, [date |-> 2, schedule |-> "full"]}]
    /\ added = [op |-> "none"]
    /\ WalkIdle
    /\ FileInfoIdle
    /\ ProcIdle
    /\ tree = <<>>
    /\ inodes = <<>>
    /\ args = <<>>
    /\ arch = Archive_init
    /\ registered = <<>>
    /\ tars = <<>>
    /\ created = <<>>
    /\ ret = NoCall
    /\ ExtractIdle
    /\ BackupIdle
    /\ DiffIdle

IndexRest ==
    UNCHANGED <<chain, schedule, call, base_archives, diffVars, backupVars,
                tree, inodes, args, arch, tars, created, ret, extractVars,
                registered, walk, fiVars, procVars, dateVars>>

\* an archive file is written to the directory, or written anew
WriteArchive(p, head) ==
    /\ disk[p] # head
    /\ disk' = [disk EXCEPT ![p] = head]
    /\ added' = [op |-> "write"]
    /\ UNCHANGED idx
    /\ IndexRest

\* an archive file is removed from the directory
RemoveArchive(p) ==
    /\ disk[p] # NoArchive
    /\ disk' = [disk EXCEPT ![p] = NoArchive]
    /\ added' = [op |-> "remove"]
    /\ UNCHANGED idx
    /\ IndexRest

\* idx.add_archives(paths, prune=prune)
AddArchives(paths, prune) ==
    LET r == add_archives(disk, idx, paths, prune)
    IN  /\ idx' = r.items
        /\ added' = [op |-> "add_archives", raised |-> r.raised, paths |-> paths,
                     prune |-> prune, before |-> idx, opened |-> r.opened]
        /\ UNCHANGED disk
        /\ IndexRest

\* archive-tool's backup index command: update_index(args, config)
UpdateIndexFile(prune) ==
    \E paths \in glob(disk) :
        LET r == add_archives(disk, idx, paths, prune)
        IN  /\ idx' = Index_sort(r.items)
            /\ added' = [op |-> "index", raised |-> r.raised, paths |-> paths,
                         prune |-> prune, before |-> idx, opened |-> r.opened]
            /\ UNCHANGED disk
            /\ IndexRest

IndexNext ==
    \/ \E p \in IndexPaths, head \in ArchiveHeads : WriteArchive(p, head)
    \/ \E p \in IndexPaths : RemoveArchive(p)
    \/ \E paths \in PathLists(MaxPaths), prune \in BOOLEAN : AddArchives(paths, prune)
    \/ \E prune \in BOOLEAN : UpdateIndexFile(prune)

SpecIndex == IndexInit /\ [][IndexNext]_vars

(***************************************************************************)
(* SpecDate: date specifications parsed to a ScheduleDate, and datetimes   *)
(* tested against it.  A specification is given in its parts: the weekday  *)
(* or none, one to three components of the date, and two or three          *)
(* components of the time or none.                                         *)
(***************************************************************************)
\* "", "Mon", "Mon..Wed", "Sat,Mon..Tue"
WeekdaySpecs ==
    { <<>>,
      <<vlist(<<DTMatcherValue(_wd.Mon)>>)>>,
      <<vlist(<<DTMatcherInterval(_wd.Mon, _wd.Wed)>>)>>,
      <<vlist(<<DTMatcherValue(_wd.Sat), DTMatcherInterval(_wd.Mon, _wd.Tue)>>)>> }

\* "*", "15", "10-15", "2021-*-2..8", "8..2", "*-10,11-1"
DateSpecs ==
    { <<DTMatcherAny>>,
      <<DTMatcherValue(15)>>,
      <<DTMatcherValue(10), DTMatcherValue(15)>>,
      <<DTMatcherValue(2021), DTMatcherAny, DTMatcherInterval(2, 8)>>,
      <<DTMatcherInterval(8, 2)>>,
      <<DTMatcherAny, vlist(<<DTMatcherValue(10), DTMatcherValue(11)>>),
        DTMatcherValue(1)>> }

\* "", "3:0", "2,1:23", "3:*:0"
TimeSpecs ==
    { <<>>,
      <<DTMatcherValue(3), DTMatcherValue(0)>>,
      <<vlist(<<DTMatcherValue(2), DTMatcherValue(1)>>), DTMatcherValue(23)>>,
      <<DTMatcherValue(3), DTMatcherAny, DTMatcherValue(0)>> }

\* datetime.isoweekday() in October and November 2021 and October 2022:
\* the first days of these months were a Friday, a Monday and a Saturday
isoweekday(year, month, day) ==
    LET first == IF year = 2022 THEN 6 ELSE IF month = 10 THEN 5 ELSE 1
    IN  ((first + day - 2) % 7) + 1

\* datetime.datetime(year, month, day, hour, minute, second)
datetime(year, month, day, hour, minute, second) ==
    [weekday |-> isoweekday(year, month, day), year |-> year, month |-> month,
     day |-> day, hour |-> hour, minute |-> minute, second |-> second]

DateTimes ==
    { datetime(ym[1], ym[2], day, hour, minute, second) :
        ym \in {<<2021, 10>>, <<2021, 11>>, <<2022, 10>>},
        day \in {1, 2, 4, 15}, hour \in {1, 3}, minute \in {0, 23},
        second \in {0, 7} }

DateInit ==
    /\ schedule_date = [op |-> "none"]
    /\ asked = [op |-> "none"]
    /\ WalkIdle
    /\ FileInfoIdle
    /\ ProcIdle
    /\ IndexIdle
    /\ tree = <<>>
    /\ inodes = <<>>
    /\ args = <<>>
    /\ arch = Archive_init
    /\ registered = <<>>
    /\ tars = <<>>
    /\ created = <<>>
    /\ ret = NoCall
    /\ ExtractIdle
    /\ SchedIdle
    /\ DiffIdle
    /\ BackupIdle

DateRest ==
    UNCHANGED <<schedVars, diffVars, backupVars, tree, inodes, args, arch, tars,
                created, ret, extractVars, registered, walk, fiVars, procVars,
                indexVars>>

\* sd = ScheduleDate(spec)
Parse(weekday, date, time) ==
    /\ schedule_date' = [op |-> "parse",
                         spec |-> [weekday |-> weekday, date |-> date, time |-> time],
                         sd |-> ScheduleDate(weekday, date, time)]
    /\ asked' = [op |-> "none"]
    /\ DateRest

\* dt in sd
Contains(dt) ==
    /\ schedule_date.op = "parse"
    /\ asked' = [op |-> "contains", dt |-> dt, contained |-> ScheduleDate_contains(schedule_date.sd, dt)]
    /\ UNCHANGED schedule_date
    /\ DateRest

DateNext ==
    \/ \E weekday \in WeekdaySpecs, date \in DateSpecs, time \in TimeSpecs :
          Parse(weekday, date, time)
    \/ \E dt \in DateTimes : Contains(dt)

SpecDate == DateInit /\ [][DateNext]_vars

(***************************************************************************)
(* SpecSkip: archive-tool diff with and without --skip-dir-content on the  *)
(* manifests of two archives that hold directories within directories,     *)
(* and entries whose directory the archive does not hold.                  *)
(***************************************************************************)
\* a mutant: only the entries of the archive that has the directory are
\* skipped
RECURSIVE _skip_dir_filter_side(_, _)
_skip_dir_filter_side(tuples, skip) ==
    IF tuples = <<>> THEN <<>>
    ELSE LET t  == Head(tuples)
             p  == (IF t[2] # None THEN t[2] ELSE t[3]).path
             to == IF t[1] = "MISSING_A" /\ t[3].type = "d"
                   THEN [path |-> t[3].path, stat |-> t[1]]
                   ELSE IF t[1] = "MISSING_B" /\ t[2].type = "d"
                   THEN [path |-> t[2].path, stat |-> t[1]]
                   ELSE None
         IN  IF skip # None /\ (p = skip.path \/ IsBelow(p, skip.path))
                /\ t[1] = skip.stat
             THEN _skip_dir_filter_side(Tail(tuples), skip)
             ELSE <<t>> \o _skip_dir_filter_side(Tail(tuples), to)

\* _skip_dir_filter(diff) from a tuple on, with the skip_path at hand;
\* skip is the record of it, or None
RECURSIVE _skip_dir_filter(_, _)
_skip_dir_filter(tuples, skip) ==
    IF tuples = <<>> THEN <<>>
    ELSE LET t  == Head(tuples)
             p  == (IF t[2] # None THEN t[2] ELSE t[3]).path
             to == IF t[1] = "MISSING_A" /\ t[3].type = "d"
                   THEN [path |-> t[3].path, stat |-> t[1]]
                   ELSE IF t[1] = "MISSING_B" /\ t[2].type = "d"
                   THEN [path |-> t[2].path, stat |-> t[1]]
                   ELSE None
         IN  IF skip # None /\ (p = skip.path \/ IsBelow(p, skip.path))
             THEN _skip_dir_filter(Tail(tuples), skip)
             ELSE <<t>> \o _skip_dir_filter(Tail(tuples), to)

\* archive-tool diff [--report-meta] [--skip-dir-content] archive1 archive2:
\* the tuples the loop of diff() gets, and the exit status
diff_command(manifest1, manifest2, checksums1, checksums2, report_meta, skip_dir_content) ==
    LET algorithm == _common_checksum(checksums1, checksums2)
        d == diff_manifest_run(manifest1, manifest2, algorithm.value)
        tuples == IF skip_dir_content THEN _skip_dir_filter(d.value, None)
                  ELSE d.value
    IN  IF algorithm.raised # "None" THEN algorithm @@ [status |-> 0]
        ELSE IF d.raised # "None" THEN d @@ [status |-> 0]
        ELSE [raised |-> "None", value |-> tuples,
              status |-> Max({0} \cup {diff_status(tuples[i], report_meta) :
                                          i \in 1..Len(tuples)})]

\* base, base/1, base/1/1, base/1/2, base/2, base/2/1 and what they may be
SkipKinds ==
    [ {<<1>>} -> {"d"} ]
    \cup [ {<<1, 1>>} -> {"-", "d", "f1"} ]
    \cup [ {<<1, 1, 1>>} -> {"-", "f1", "f2"} ]
    \cup [ {<<1, 1, 2>>} -> {"-", "f1"} ]
    \cup [ {<<1, 2>>} -> {"-", "d", "f1"} ]
    \cup [ {<<1, 2, 1>>} -> {"-", "f1"} ]

SkipPaths == UNION {DOMAIN k : k \in SkipKinds}

SkipManifests ==
    { SortByPath({FewInfo(q, kind[q]) : q \in {p \in SkipPaths : kind[p] # "-"}}) :
        kind \in {k \in [SkipPaths -> {"-", "d", "f1", "f2"}] :
                     \A p \in SkipPaths : (p :> k[p]) \in SkipKinds} }

SkipInit ==
    /\ manifest_a \in SkipManifests
    /\ manifest_b \in SkipManifests
    /\ diff = Pending
    /\ heads = DefaultHeads
    /\ SchedIdle
    /\ ArchIdle
    /\ BackupIdle

DiffSkip(report_meta, skip_dir_content) ==
    /\ diff' = [op |-> "diff", skip_dir_content |-> skip_dir_content] @@
                diff_command(manifest_a, manifest_b, heads[1], heads[2],
                             report_meta, skip_dir_content)
    /\ UNCHANGED <<manifest_a, manifest_b, heads, schedVars, archVars, backupVars>>

SkipNext ==
    \E report_meta \in BOOLEAN, skip_dir_content \in BOOLEAN :
        DiffSkip(report_meta, skip_dir_content)

SpecSkip == SkipInit /\ [][SkipNext]_vars

(***************************************************************************)
(* Claims on the schedule chain.                                           *)
(***************************************************************************)
Dates(archives) == [i \in 1..Len(archives) |-> archives[i].date]

Ascending(dates) == \A i, j \in 1..Len(dates) : i < j => dates[i] < dates[j]

TestChain == MkChain(<<"full", "cumu", "incr">>)

\* [F1, I1, F2, C1, I2, C2, I3]
TestArchives ==
    [i \in 1..7 |->
        IndexItem(i, <<"monthly", "daily", "monthly", "weekly",
                       "daily", "weekly", "daily">>[i])]

\* C2: in a chain [full, cumu, incr] the base of the incremental schedule is
\* the most recent full archive, then the most recent cumulative archive made
\* after that full (if any), then every incremental archive made after the
\* last of those, in list order; for [F1, I1, F2, C1, I2, C2, I3] it is
\* [F2, C2, I3].
C2_IncrBase ==
    (chain = TestChain /\ call = "base" /\ schedule = 3) =>
        LET fulls == After(idx, 0, "monthly")
            f     == Max(fulls)
            cumus == After(idx, f, "weekly")
            last  == IF cumus = {} THEN f ELSE Max(cumus)
            incrs == After(idx, last, "daily")
        IN  /\ fulls = {} => base_archives.raised = "NoFullBackupError"
            /\ fulls # {} =>
                /\ base_archives.raised = "None"
                /\ Ascending(Dates(base_archives.value))
                /\ Range(base_archives.value) =
                       {idx[i] : i \in {f} \cup {last} \cup incrs}
            /\ idx = TestArchives =>
                   Dates(base_archives.value) = <<3, 6, 7>>

C2_Witness ==
    /\ chain = TestChain /\ call = "base" /\ schedule = 3
    /\ idx = TestArchives
    /\ Len(base_archives.value) = 3

\* C3: the base of a cumulative schedule is the child base of its parent and
\* holds no archive of the cumulative schedule itself; its child base is that
\* list, extended only by the most recent archive of the cumulative schedule
\* that lies after the list's last element, if there is one.
C3_CumuBase ==
    (schedule > 1 /\ chain[schedule].cls = "cumu") =>
        LET name   == chain[schedule].name
            parent == get_child_base_archives(chain, schedule - 1, idx)
            last   == parent.value[Len(parent.value)].date
            own    == After(idx, last, name)
        IN  /\ parent.raised # "None" => base_archives = parent
            /\ (parent.raised = "None" /\ call = "base") =>
                /\ base_archives = parent
                /\ \A i \in 1..Len(base_archives.value) :
                       base_archives.value[i].schedule # name
            /\ (parent.raised = "None" /\ call = "child") =>
                /\ base_archives.raised = "None"
                /\ own = {} => base_archives.value = parent.value
                /\ own # {} =>
                       base_archives.value =
                           Append(parent.value, idx[Max(own)])

C3_Witness ==
    /\ schedule = 2 /\ chain[2].cls = "cumu" /\ call = "child"
    /\ \E f \in 1..Len(idx) :
          /\ After(idx, 0, "monthly") # {} /\ f = Max(After(idx, 0, "monthly"))
          /\ Cardinality(After(idx, f, "weekly")) >= 2
    /\ Len(base_archives.value) = 2
    /\ base_archives.value[2].schedule = "weekly"

(***************************************************************************)
(* Claims on diff_manifest.                                                *)
(***************************************************************************)
PathsOf(m) == {m[i].path : i \in 1..Len(m)}

EntryAt(m, p) == CHOOSE fi \in Range(m) : fi.path = p

TuplePath(t) == IF t[2] # None THEN t[2].path ELSE t[3].path

\* C5: for two manifests sorted by path without duplicate paths, the diff
\* yields exactly one tuple for every path of either manifest, in ascending
\* path order: (MISSING_B, a, None) for a path only in A, (MISSING_A, None, b)
\* for a path only in B, (status, a, b) with both entries for a path in both;
\* it ends when both inputs are exhausted.
C5_DiffMerge ==
    diff # Pending =>
        LET out == diff.value
            pa  == PathsOf(manifest_a)
            pb  == PathsOf(manifest_b)
        IN  /\ diff.raised = "None"
            /\ Len(out) = Cardinality(pa \cup pb)
            /\ {TuplePath(out[i]) : i \in 1..Len(out)} = pa \cup pb
            /\ \A i, j \in 1..Len(out) :
                   i < j => PathLess(TuplePath(out[i]), TuplePath(out[j]))
            /\ \A i \in 1..Len(out) :
                   LET p == TuplePath(out[i])
                   IN  /\ p \in pa \ pb =>
                           out[i] = <<"MISSING_B", EntryAt(manifest_a, p), None>>
                       /\ p \in pb \ pa =>
                           out[i] = <<"MISSING_A", None, EntryAt(manifest_b, p)>>
                       /\ p \in pa \cap pb =>
                           /\ out[i][1] \notin {"MISSING_A", "MISSING_B"}
                           /\ out[i][2] = EntryAt(manifest_a, p)
                           /\ out[i][3] = EntryAt(manifest_b, p)

C5_Witness ==
    /\ diff.raised = "None"
    /\ PathsOf(manifest_a) \ PathsOf(manifest_b) # {}
    /\ PathsOf(manifest_b) \ PathsOf(manifest_a) # {}
    /\ PathsOf(manifest_a) \cap PathsOf(manifest_b) # {}
    /\ Len(diff.value) = Cardinality(Paths)

SameButMtime(fi_a, fi_b) == [fi_a EXCEPT !.mtime = fi_b.mtime] = fi_b

JustCreated == ret.op = "create" /\ ret.raised = "None"

\* the tar file create() has just written
Written == tars[arch.path].members

\* the items of the manifest that are regular files
IsFile(p) == tree[p].type = "f"

\* the dedup key of two regular files of the tree is the same
SameKey(dedup, p, q) ==
    IF dedup = "LINK"
    THEN tree[p].ino = tree[q].ino /\ lstat(tree, inodes, p).st_nlink > 1
    ELSE IF dedup = "CONTENT"
    THEN hexdigest("sha256", inodes[tree[p].ino].content)
           = hexdigest("sha256", inodes[tree[q].ino].content)
    ELSE FALSE

\* C7: the tar file written by create() holds the manifest file, then the
\* other metadata items, then one member for every entry of the manifest in
\* the ascending path order of the manifest; the Metadata list of the
\* manifest's header is the list of the names of the leading members, and no
\* member of the content stands before a metadata item.
C7_TarOrder ==
    JustCreated =>
        LET mds == arch._metadata
            fis == arch.manifest.fileinfos
            n   == Len(mds)
        IN  /\ n >= 1
            /\ mds[1].name = ManifestName
            /\ Len(Written) = n + Len(fis)
            /\ \A k \in 1..n : /\ Written[k].name = mds[k].path
                               /\ Written[k].data = mds[k].fileobj
            /\ \A k \in 1..Len(fis) : Written[n + k].name = fis[k].path
            /\ \A i, j \in 1..Len(fis) : i < j => ~PathLess(fis[j].path, fis[i].path)
            /\ arch.manifest.head.Metadata = [k \in 1..n |-> Written[k].name]
            /\ Manifest_fileobj(Written[1].data) = arch.manifest
            /\ \A k \in 1..n : \A j \in 1..Len(fis) : Written[k].name # fis[j].path

C7_Witness ==
    /\ JustCreated
    /\ Len(arch._metadata) = 3
    /\ Len(arch.manifest.fileinfos) >= 2
    /\ \E k \in 1..Len(Written) : Written[k].type = "SYM"

\* C8: create() writes a regular file as a hard link exactly when an earlier
\* regular file of the archive has its dedup key: the inode for LINK, and
\* only for files with more than one link, the checksum for CONTENT, and no
\* key at all for NEVER; nothing else is written as a hard link.
C8_LinkIffSameKey ==
    JustCreated =>
        LET fis == arch.manifest.fileinfos
            n   == Len(arch._metadata)
        IN  \A k \in 1..Len(fis) :
                (Written[n + k].type = "LNK")
                    <=> /\ fis[k].type = "f"
                        /\ \E j \in 1..(k - 1) :
                              /\ fis[j].type = "f"
                              /\ SameKey(args.dedup, fis[j].path, fis[k].path)

C8_Witness ==
    /\ JustCreated
    /\ args.dedup = "CONTENT"
    /\ \E k \in 1..Len(Written) :
          /\ Written[k].type = "LNK"
          /\ tree[Written[k].name].ino # tree[Written[k].linkname].ino
    /\ \E k \in 1..Len(Written) : Written[k].type = "DIR"

\* the number of metadata items at the head of a tar file, by its manifest
Leading(members) ==
    IF members = <<>> THEN 0
    ELSE Len(Manifest_fileobj(members[1].data).head.Metadata)

C10_CreateVerify ==
    (ret.op \in {"open", "verify"} /\ arch._file # "" /\ created[arch._file] = "None")
        => ret.raised = "None"

C10_Witness ==
    /\ ret.op = "verify"
    /\ ret.raised = "None"
    /\ arch._file # ""
    /\ created[arch._file] = "None"
    /\ \E k \in 1..Len(tars[arch._file].members) :
          /\ tars[arch._file].members[k].type = "LNK"
          /\ tars[arch._file].members[k].size = 0

(***************************************************************************)
(* Claims on the backup driver.                                            *)
(***************************************************************************)
\* the last run was one of a cumulative or an incremental schedule
DiffRun ==
    /\ run.op = "create"
    /\ run.schedule > 0
    /\ chain[run.schedule].cls \in {"cumu", "incr"}

\* the base archives of the schedule of the run, by the index it read
BasesOfRun == get_base_archives(chain, run.schedule, run.archives).value

\* the entries of a base archive for a path
EntriesAt(item, path) ==
    {fi \in Range(base_manifest(backupdir, item.path).fileinfos) : fi.path = path}

\* no base archive of the run has an entry that matches fi
Unmatched(fi) ==
    \A i \in 1..Len(BasesOfRun) :
        \A e \in EntriesAt(BasesOfRun[i], fi.path) : _match(e, fi, Checksums[1]) # "MATCH"

\* C1: in a cumulative or incremental run the entries given to the archive
\* builder are the entries of the manifest of the directory for which every
\* base archive of the schedule has no entry of that path or an entry that
\* compares as other than MATCH; nothing else is given, an entry of a base
\* archive never, and the entries given are in ascending order of the paths.
C1_FilterFileinfos ==
    (DiffRun /\ run.raised = "None") =>
        /\ run.fileinfos = SelectSeq(run.manifest.fileinfos, Unmatched)
        /\ \A i, j \in 1..Len(run.fileinfos) :
              i < j => PathLess(run.fileinfos[i].path, run.fileinfos[j].path)

C1_Witness ==
    /\ DiffRun
    /\ run.raised = "None"
    /\ Len(BasesOfRun) >= 2
    /\ run.fileinfos # <<>>
    /\ \E fi \in Range(run.manifest.fileinfos) :
          /\ fi.type = "f"
          /\ fi \notin Range(run.fileinfos)
          /\ \E i \in 1..Len(BasesOfRun) :
                \E e \in EntriesAt(BasesOfRun[i], fi.path) :
                    _match(e, fi, Checksums[1]) = "CONTENT"

\* the archives of an index that a full schedule made
FullsOf(name, archives) == {i \in 1..Len(archives) : archives[i].schedule = name}

\* C4: the base of a full schedule is empty; its child base is the one most
\* recent archive of the name of the schedule, and NoFullBackupError is
\* raised exactly when the index has no such archive.  A cumulative or an
\* incremental run of the driver then ends with an ArchiveCreateError, and
\* it writes no archive.
C4_NoFullBackup ==
    /\ \A k \in 1..Len(chain) :
          chain[k].cls = "full" =>
              LET fulls == FullsOf(chain[k].name, idx)
                  child == get_child_base_archives(chain, k, idx)
              IN  /\ get_base_archives(chain, k, idx) = Return(<<>>)
                  /\ fulls = {} <=> child.raised = "NoFullBackupError"
                  /\ fulls # {} => child = Return(<<idx[Max(fulls)]>>)
    /\ DiffRun =>
          LET fulls == FullsOf(chain[1].name, run.archives)
          IN  /\ fulls = {} <=> run.raised = "ArchiveCreateError"
              /\ fulls = {} => run.written = <<>> /\ run.fileinfos = <<>>

C4_Witness ==
    /\ DiffRun
    /\ run.raised = "ArchiveCreateError"
    /\ run.written = <<>>
    /\ chain[run.schedule].cls = "incr"
    /\ FullsOf(chain[1].name, run.archives) = {}
    /\ \E i \in 1..Len(backupdir) : backupdir[i].schedule = chain[1].name

(***************************************************************************)
(* Claims on Archive.verify().                                             *)
(***************************************************************************)
\* the member of the tar file an entry of the manifest is compared with
MemberOf(members, fi) ==
    LET named == {i \in 1..Len(members) : members[i].name = fi.path}
    IN  IF named = {} THEN 0 ELSE CHOOSE i \in named : \A j \in named : j <= i

\* the content a member stands for: its own, or that of the regular member
\* a hard link names
ContentOf(members, i) ==
    IF members[i].type = "REG" THEN members[i].data
    ELSE LET tg == CHOOSE j \in 1..(i - 1) :
                       members[j].name = members[i].linkname /\ members[j].type = "REG"
         IN  members[tg].data

\* the entry is missing from the tar file, or differs from it in mode, whole
\* second of mtime, type, size, a checksum or the target of the link
Differs(members, fi) ==
    LET i  == MemberOf(members, fi)
        ti == members[i]
    IN  \/ i = 0
        \/ /\ i # 0
           /\ \/ ti.mode # fi.mode
              \/ ti.mtime \div 2 # fi.mtime \div 2
              \/ fi.type = "d" /\ ti.type # "DIR"
              \/ fi.type = "l" /\ (ti.type # "SYM" \/ ti.linkname # fi.target)
              \/ fi.type = "f" /\ ti.type \notin {"REG", "LNK"}
              \/ fi.type = "f" /\ ti.type = "REG" /\ ti.size # fi.size
              \/ /\ fi.type = "f"
                 /\ ti.type \in {"REG", "LNK"}
                 /\ \E h \in DOMAIN fi.checksum :
                        hexdigest(h, ContentOf(members, i)) # fi.checksum[h]

\* the positions in the manifest of the opened archive of the entries that
\* differ from the tar file
DifferingEntries ==
    {k \in 1..Len(arch.manifest.fileinfos) :
        Differs(tars[arch._file].members, arch.manifest.fileinfos[k])}

\* C11: verify() on an opened archive returns normally if no entry of the
\* manifest is missing from the tar file or differs from it in mode, whole
\* second of mtime, type, size (of a member that is no hard link), checksum
\* or link target; otherwise it raises ArchiveIntegrityError for the first
\* such entry in the order of the manifest.
C11_VerifyFirstFailure ==
    (ret.op = "verify" /\ arch._file # "")
        => IF DifferingEntries = {}
           THEN ret.raised = "None"
           ELSE /\ ret.raised = "ArchiveIntegrityError"
                /\ \E k \in DifferingEntries :
                      /\ \A j \in DifferingEntries : k <= j
                      /\ ret.item = arch.manifest.fileinfos[k].path

C11_Witness ==
    /\ ret.op = "verify"
    /\ arch._file # ""
    /\ ret.raised = "ArchiveIntegrityError"
    /\ ret.message = "checksum does not match"
    /\ Cardinality(DifferingEntries) = 2
    /\ \E i \in 1..Len(tars[arch._file].members) :
          tars[arch._file].members[i].type = "LNK"

\* the leading members of the tar file of the opened archive bear the names
\* of the Metadata list of its manifest, in that order
MetadataLeads ==
    LET metadata == arch.manifest.head.Metadata
        members  == tars[arch._file].members
    IN  /\ Len(metadata) <= Len(members)
        /\ \A k \in 1..Len(metadata) : members[k].name = metadata[k]

\* C12: verify() on an opened archive raises ArchiveIntegrityError unless
\* the first len(Metadata) members of the tar file bear the names of the
\* Metadata list in that order, also when the tar file has fewer members
\* than the list has names.
C12_MetadataCheck ==
    (ret.op = "verify" /\ arch._file # "" /\ arch.manifest # None /\ ~MetadataLeads)
        => ret.raised = "ArchiveIntegrityError"

(***************************************************************************)
(* Claims on Archive.extract().                                            *)
(***************************************************************************)
\* extract() was called on an opened archive that create() had written
Extracted ==
    /\ ret.op = "extract"
    /\ arch._file # ""
    /\ created[arch._file] = "None"

PathsIn(fis) == [i \in 1..Len(fis) |-> fis[i].path]

\* C13: extract() of an archive written by create() raises no error; it
\* writes the entries of the manifest that are no directories in the order
\* of the manifest, then the directories in the reverse of that order, so
\* every entry beneath a directory is written before the directory is, and
\* every directory of the manifest ends with the mtime the manifest records.
C13_ExtractOrder ==
    Extracted =>
        LET fis  == arch.manifest.fileinfos
            dirs == SelectSeq(fis, LAMBDA fi : fi.type = "d")
        IN  /\ ret.raised = "None"
            /\ extracted = PathsIn(SelectSeq(fis, LAMBDA fi : fi.type # "d"))
                           \o [i \in 1..Len(dirs) |-> dirs[Len(dirs) + 1 - i].path]
            /\ \A i, j \in 1..Len(extracted) :
                  (/\ \E k \in 1..Len(dirs) : dirs[k].path = extracted[i]
                   /\ IsBelow(extracted[j], extracted[i])) => j < i
            /\ \A k \in 1..Len(fis) :
                  /\ fis[k].path \in DOMAIN targetdir
                  /\ targetdir[fis[k].path].type = fis[k].type
                  /\ fis[k].type = "d" => targetdir[fis[k].path].mtime = fis[k].mtime

C13_Witness ==
    /\ Extracted
    /\ ret.raised = "None"
    /\ ret.inclmeta
    /\ args.paths = <<BaseDir>>
    /\ tree[<<1, 1>>] = DirNode
    /\ tree[<<1, 1, 1>>].type = "f"
    /\ targetdir[<<1, 1>>].mtime = 5
    /\ targetdir[BaseDir].mtime = 5
    /\ \E i \in 1..Len(tars[arch._file].members) :
          tars[arch._file].members[i].type = "LNK"

\* the schedules of the chain whose date holds the time of the run
MatchingSchedules == {k \in 1..Len(chain) : ScheduleDate_contains(chain[k].date, run.now)}

\* C14: a run of the driver selects the schedule that is the first, in the
\* order of the declaration, of those whose date matches the time of the run,
\* also when later schedules match the time too, and none when no date
\* matches; an archive the run writes is one of the schedule selected.
C14_FirstMatch ==
    run.op = "create" =>
        /\ MatchingSchedules = {} => run.schedule = 0
        /\ MatchingSchedules # {} =>
              /\ run.schedule \in MatchingSchedules
              /\ \A j \in MatchingSchedules : run.schedule <= j
        /\ \A i \in 1..Len(run.written) :
              run.written[i].schedule = chain[run.schedule].name

C14_Witness ==
    /\ run.op = "create"
    /\ run.schedule = 2
    /\ MatchingSchedules = {2, 3}
    /\ run.written # <<>>

\* the entries of the manifest of the run that no base archive matches
Filtered == SelectSeq(run.manifest.fileinfos, Unmatched)

\* the run found its schedule and the base archives of it
BasesFound ==
    /\ run.schedule > 0
    /\ get_base_archives(chain, run.schedule, run.archives).raised = "None"

\* the state after a run: an archive is written only if a schedule matched
\* and entries were left; with no schedule, or every entry matched by the
\* base archives, the run returned 0 and wrote nothing
C15_AfterRun ==
    run.op = "create" =>
        /\ run.written # <<>> =>
              /\ MatchingSchedules # {}
              /\ BasesFound
              /\ Filtered # <<>>
        /\ (MatchingSchedules = {} \/ (BasesFound /\ Filtered = <<>>)) =>
              /\ run.raised = "None"
              /\ run.value = <<0>>
              /\ run.written = <<>>

\* C15: a run of the driver adds an archive to the backup directory only if
\* a schedule matches the time of the run and the entries left by the base
\* archives are not none; when no schedule matches, or every entry of the
\* directory matches the base archives, the run returns 0 and the backup
\* directory is as it was.
C15_NothingToArchive ==
    /\ []C15_AfterRun
    /\ [][run'.op = "create" =>
             /\ backupdir' = backupdir \o run'.written
             /\ run'.written = <<>> <=> backupdir' = backupdir]_vars

C15_Witness ==
    /\ DiffRun
    /\ BasesFound
    /\ Len(run.manifest.fileinfos) >= 2
    /\ Filtered = <<>>
    /\ run.value = <<0>>
    /\ run.written = <<>>
    /\ backupdir # <<>>

(***************************************************************************)
(* Claims on the metadata items of an archive.                             *)
(***************************************************************************)
\* C16: the metadata items registered with add_metadata() before create()
\* are the members of the tar file that follow the manifest file, in the
\* order in which they were registered, for any number of items.
C16_RegistrationOrder ==
    JustCreated =>
        /\ Len(Written) > Len(registered)
        /\ Written[1].name = arch.basedir \o <<ManifestName>>
        /\ \A i \in 1..Len(registered) :
              Written[1 + i].name = arch.basedir \o <<registered[i]>>

\* a tuple of a diff with its two entries exchanged
Exchanged(t) ==
    << IF t[1] = "MISSING_A" THEN "MISSING_B"
       ELSE IF t[1] = "MISSING_B" THEN "MISSING_A" ELSE t[1],
       t[3], t[2] >>

\* C18: the diff of two sorted manifests is the diff of them in the other
\* order with MISSING_A and MISSING_B exchanged and the two entries of every
\* tuple exchanged: the same paths in the same order with the same status
\* apart from that exchange.
C18_DiffReverse ==
    diff # Pending =>
        LET back == diff_manifest(manifest_b, manifest_a, Checksums[1])
        IN  /\ diff.raised = "None"
            /\ Len(diff.value) = Len(back)
            /\ \A i \in 1..Len(back) : diff.value[i] = Exchanged(back[i])

C18_Witness ==
    /\ diff # Pending
    /\ \E i, j, k \in 1..Len(diff.value) :
          /\ diff.value[i][1] = "MISSING_A"
          /\ diff.value[j][1] = "MISSING_B"
          /\ diff.value[k][1] \in {"TYPE", "CONTENT"}

(***************************************************************************)
(* Claims on the checksum algorithm of a diff.                             *)
(***************************************************************************)
\* the places in the Checksums of the first head of the algorithms that the
\* second head lists too
CommonPlaces == {k \in 1..Len(heads[1]) : heads[1][k] \in Range(heads[2])}

\* the first algorithm of the first head that the second head lists too
FirstCommon == heads[1][CHOOSE k \in CommonPlaces : \A j \in CommonPlaces : k <= j]

\* the entries of the second manifest a diff with the algorithm keeps
KeptBy(algorithm) ==
    LET d    == diff_manifest(manifest_a, manifest_b, algorithm)
        keep == SelectSeq(d, LAMBDA t : t[1] \notin {"MISSING_B", "MATCH"})
    IN  [i \in 1..Len(keep) |-> keep[i][3]]

\* C17: the diff command and the comparison of the backup driver with a base
\* archive compare the content of the files with the first algorithm of the
\* Checksums of the first head that is in the Checksums of the second head
\* too, and they end with an ArchiveReadError when there is none.
C17_CommonChecksum ==
    diff # Pending =>
        IF CommonPlaces = {} THEN diff.raised = "ArchiveReadError"
        ELSE /\ diff.raised = "None"
             /\ diff.op = "diff" =>
                   diff.value = diff_manifest(manifest_a, manifest_b, FirstCommon)
             /\ diff.op = "filter" => diff.value = KeptBy(FirstCommon)

\* two metadata items of the Archive at hand have one name in the archive
DuplicateMetadata ==
    \E i, j \in 1..Len(arch._metadata) :
        i < j /\ arch._metadata[i].path = arch._metadata[j].path

\* an entry of the manifest has the name in the archive of a metadata item
ReservedName ==
    /\ arch.manifest # None
    /\ \E i \in 1..Len(arch.manifest.fileinfos) : \E j \in 1..Len(arch._metadata) :
          arch.manifest.fileinfos[i].path = arch._metadata[j].path

\* C20: create() raises ArchiveCreateError when two metadata items have one
\* name in the archive and when an entry of the content has the name of a
\* metadata item, wherever the tar file could be opened for writing; so in
\* the tar file of a create() that returned, no member of the content has
\* the name of a metadata item.
C20_ReservedNames ==
    ret.op = "create" =>
        /\ ((DuplicateMetadata \/ ReservedName) /\ ret.raised # "FileExistsError")
              => ret.raised = "ArchiveCreateError"
        /\ ret.raised = "None" =>
              LET n == Len(arch.manifest.head.Metadata)
              IN  /\ Len(Written) >= n
                  /\ \A k \in (n + 1)..Len(Written) : \A j \in 1..n :
                        Written[k].name # Written[j].name

C20_Witness ==
    /\ ret.op = "create"
    /\ ret.raised = "ArchiveCreateError"
    /\ ReservedName
    /\ ~DuplicateMetadata
    /\ registered # <<>>
    /\ \E i \in 1..Len(arch.manifest.fileinfos) :
          arch.manifest.fileinfos[i].path = arch.basedir \o <<registered[1]>>

(***************************************************************************)
(* Claims on the input that Archive.create() rejects.                      *)
(***************************************************************************)
\* the base directory of the call: the one given, or the first part of the
\* first path, or for absolute paths the name of the archive
BasedirOfCall ==
    IF args.basedir # NoPath THEN args.basedir
    ELSE IF is_absolute(args.paths[1]) THEN <<ArchiveStem("a.tar")>>
    ELSE <<args.paths[1][1]>>

\* the input of the call is one that is to be rejected
EmptyPaths == args.paths = <<>>

AbsoluteBasedir == ~EmptyPaths /\ BasedirOfCall[1] = Slash

NotNormalized == \E i \in 1..Len(args.paths) : DotDot \in Range(args.paths[i])

MixedPaths ==
    \E i, j \in 1..Len(args.paths) :
        args.paths[i][1] = Slash /\ args.paths[j][1] # Slash

OutsideBasedir ==
    /\ ~EmptyPaths
    /\ \E i \in 1..Len(args.paths) :
          /\ args.paths[i][1] # Slash
          /\ args.paths[i] # BasedirOfCall
          /\ ~IsBelow(args.paths[i], BasedirOfCall)

BasedirNotDir ==
    /\ ~EmptyPaths
    /\ BasedirOfCall \in Range(args.paths)
    /\ tree[BasedirOfCall].type \in {"f", "l"}

Rejected ==
    \/ EmptyPaths \/ AbsoluteBasedir \/ NotNormalized
    \/ MixedPaths \/ OutsideBasedir \/ BasedirNotDir

\* C19: when the input of create() is an empty list of paths, an absolute
\* basedir, a path that is not normalized, absolute and relative paths
\* together, a relative path outside the basedir or a basedir that is in the
\* archive and is no directory, then create() raises ArchiveCreateError and
\* there is no file at the path of the archive afterwards.
C19_RejectedInput ==
    Rejected =>
        /\ \A path \in TarPaths : ~tars[path].exists
        /\ ret.op = "create" => ret.raised = "ArchiveCreateError"

C19_Witness ==
    /\ BasedirNotDir
    /\ ~(EmptyPaths \/ AbsoluteBasedir \/ NotNormalized \/ MixedPaths \/ OutsideBasedir)
    /\ ret.op = "create"
    /\ ret.raised = "ArchiveCreateError"
    /\ arch.manifest # None
    /\ ~tars["a.tar"].exists


(***************************************************************************)
(* Claims on the FileInfo.iterpaths() generator.                           *)
(***************************************************************************)
YieldedPaths == [i \in 1..Len(walk.yielded) |-> walk.yielded[i].path]

\* the directories yielded that the consumer answered with a true value
SkippedDirs ==
    {walk.yielded[i].path : i \in {j \in 1..Len(walk.sent) :
        truth(walk.sent[j]) /\ walk.yielded[j].type = "d"}}

NotSkipped(fi) == \A d \in SkippedDirs : ~IsBelow(fi.path, d)

\* the walk of the paths given when every answer is false, less what is
\* below a directory that got a true answer
WalkExpected ==
    SelectSeq(iterpaths(tree, inodes, args.paths, args.excludes), NotSkipped)

\* every directory comes before its contents, and its contents come in one
\* run right after it
DepthFirst ==
    \A i, j \in 1..Len(walk.yielded) :
        IsBelow(YieldedPaths[j], YieldedPaths[i])
        => /\ i < j
           /\ walk.yielded[i].type = "d"
           /\ \A k \in (i + 1)..j : IsBelow(YieldedPaths[k], YieldedPaths[i])

\* C21: iterpaths yields depth first, every directory before its contents;
\* nothing below a directory answered with a true value is yielded and the
\* walk goes on with the next sibling; the value sent for an entry that is
\* no directory changes nothing, and with no or a false answer the
\* directory is descended into.
C21_SendSkips ==
    /\ DepthFirst
    /\ Len(walk.yielded) <= Len(WalkExpected)
    /\ walk.yielded = SubSeq(WalkExpected, 1, Len(walk.yielded))
    /\ walk.state = "done" => walk.yielded = WalkExpected

\* a walk has ended in which a directory with entries was skipped and
\* followed by a sibling, a directory was descended into, and a file got a
\* true answer
C21_Witness ==
    /\ walk.state = "done"
    /\ \E i \in 1..Len(walk.yielded) :
          /\ walk.yielded[i].type = "d"
          /\ truth(walk.sent[i])
          /\ iterdir(tree, YieldedPaths[i]) # <<>>
          /\ i < Len(walk.yielded)
          /\ Len(YieldedPaths[i + 1]) = Len(YieldedPaths[i])
    /\ \E i \in 1..Len(walk.yielded) :
          walk.yielded[i].type = "f" /\ truth(walk.sent[i])
    /\ \E i \in 1..(Len(walk.yielded) - 1) :
          /\ walk.yielded[i].type = "d"
          /\ ~truth(walk.sent[i])
          /\ IsBelow(YieldedPaths[i + 1], YieldedPaths[i])

(***************************************************************************)
(* Claims on the manifest built from paths.                                *)
(***************************************************************************)
\* C22: the manifest that create() builds from a list of root paths holds
\* its entries in strictly ascending path order, one entry for a path,
\* whatever the roots are, one root beneath another included.
C22_OneEntryPerPath ==
    JustCreated =>
        LET fis == arch.manifest.fileinfos
        IN  \A i, j \in 1..Len(fis) : i < j => PathLess(fis[i].path, fis[j].path)

\* the same for roots of which none is beneath another
C22_DistinctRoots ==
    (JustCreated /\ \A i, j \in 1..Len(args.paths) :
                        ~IsBelow(args.paths[i], args.paths[j]))
    => C22_OneEntryPerPath

(***************************************************************************)
(* Claims on the checksums of the FileInfo objects.                        *)
(***************************************************************************)
\* create() of the objects at hand has been called
CreateCalled == emitted.op = "create"

\* the regular files among the objects at hand
FileObjs == {k \in 1..Len(objs) : objs[k].type = "f"}

\* the object has a checksum, and none for an algorithm of the list
Lacks(obj, cs) == obj._checksum # None /\ ~(Range(cs) \subseteq DOMAIN obj._checksum)

\* C23: every regular-file entry of a manifest written into an archive
\* carries checksums for exactly the algorithms of the Checksums of the
\* manifest's head, and create() from supplied FileInfo objects fails when
\* the entry of a file lacks the checksum of a listed algorithm.
C23_ExactChecksums ==
    CreateCalled =>
        /\ emitted.raised = "None" =>
              \A i \in 1..Len(emitted.value.items) :
                  emitted.value.items[i].type = "f" =>
                      DOMAIN emitted.value.items[i].checksum
                        = Range(emitted.value.head.Checksums)
        /\ (\E k \in FileObjs : Lacks(objs[k], emitted.Checksums))
              => emitted.raised = "ArchiveCreateError"

\* the part of it that the code keeps: the entries written carry at least
\* the checksums of the head, and a lacking checksum makes create() fail
C23_AtLeastChecksums ==
    CreateCalled =>
        /\ emitted.raised = "None" =>
              \A i \in 1..Len(emitted.value.items) :
                  emitted.value.items[i].type = "f" =>
                      Range(emitted.value.head.Checksums)
                        \subseteq DOMAIN emitted.value.items[i].checksum
        /\ (\E k \in FileObjs : Lacks(objs[k], emitted.Checksums))
              <=> emitted.raised = "ArchiveCreateError"


\* C27: a FileInfo made from a path does not hash the file when it is
\* constructed; the file is hashed when the checksum property is first
\* read, and once for the object however often the property is read.
C27_LazyChecksum ==
    \A k \in FileObjs :
        /\ objs[k].hashed \in {0, 1}
        /\ objs[k].made = "path" => (objs[k]._checksum = None <=> objs[k].hashed = 0)
        /\ objs[k].made = "data" => objs[k].hashed = 0
        /\ emitted.op = "iterpaths" => objs[k].hashed = 0
        /\ (emitted.op = "checksum" /\ emitted.k = k /\ objs[k].made = "path")
              => objs[k].hashed = 1

\* create() has read the checksum of an object made from a path: in the
\* check of the manifest and again when the manifest was written
C27_Witness ==
    /\ CreateCalled
    /\ emitted.raised = "None"
    /\ \E k \in FileObjs : objs[k].made = "path" /\ objs[k].hashed = 1

(***************************************************************************)
(* Claims on the working directory and the umask of the process.           *)
(***************************************************************************)
\* create(workdir=w) has returned or raised, and the working directory is
\* the one before the call
CwdRestored == ret.op = "create" => cwd = ret.before

\* a tmp_umask scope has been left, and the umask is the one before it was
\* entered
UmaskRestored == ret.op = "exit" => umask = ret.before

\* C24: the working directory and the umask are put back on every way out:
\* after create(workdir=w) has returned or raised the working directory is
\* the one before the call, and after a tmp_umask scope is left, by its end
\* or by an exception, the umask is the one before it was entered, whatever
\* it was.
C24_Restored == CwdRestored /\ UmaskRestored

\* what the code keeps: the working directory is put back, the generator
\* tmp_umask puts every umask back, the class tmp_umask every umask but 0
C24_RestoredButZero ==
    /\ CwdRestored
    /\ (ret.op = "exit" /\ (ret.kind = "contextmanager" \/ ret.before # 0))
          => umask = ret.before

(***************************************************************************)
(* Claims on the index of archives.                                        *)
(***************************************************************************)
\* add_archives() has returned, by itself or in the index command
Indexed == added.op \in {"add_archives", "index"} /\ added.raised = "None"

IndexedPaths(items) == {items[i].path : i \in 1..Len(items)}

\* the paths given, resolved as add_archives() does
Supplied == {resolve(added.paths[k]) : k \in 1..Len(added.paths)}

ItemsAt(items, p) == {i \in 1..Len(items) : items[i].path = p}

\* C25: add_archives(paths, prune) adds one item for every path given that
\* the index does not have yet; it neither opens again nor changes an item
\* that the index has; doing it again adds nothing; with prune the paths of
\* the index are then the paths given, without prune they are the paths it
\* had and the paths given.
C25_AddArchives ==
    Indexed =>
        /\ \A p \in Supplied \ IndexedPaths(added.before) :
              /\ Cardinality(ItemsAt(idx, p)) = 1
              /\ \A i \in ItemsAt(idx, p) : idx[i] = IndexItem_archive(p, disk[p])
              /\ Cardinality({k \in 1..Len(added.opened) : added.opened[k] = p}) = 1
        /\ \A p \in IndexedPaths(added.before) :
              /\ \A k \in 1..Len(added.opened) : added.opened[k] # p
              /\ p \in IndexedPaths(idx) =>
                    {idx[i] : i \in ItemsAt(idx, p)}
                      = {added.before[i] : i \in ItemsAt(added.before, p)}
              /\ Cardinality(ItemsAt(idx, p)) <= 1
        /\ added.prune => IndexedPaths(idx) = Supplied
        /\ ~added.prune => IndexedPaths(idx) = IndexedPaths(added.before) \cup Supplied
        /\ LET again == add_archives(disk, idx, added.paths, added.prune)
           IN  /\ again.opened = <<>>
               /\ added.op = "add_archives" => again.items = idx
               /\ added.op = "index" => Index_sort(again.items) = idx

\* add_archives() with prune was given a symbolic link among the paths,
\* has kept an item whose archive file was written anew since, and the
\* paths of the index are no more what they were
C25_Witness ==
    /\ Indexed
    /\ added.op = "add_archives"
    /\ added.prune
    /\ \E i \in 1..Len(idx) :
          /\ idx[i].path \in IndexedPaths(added.before)
          /\ disk[idx[i].path] # NoArchive
          /\ idx[i] # IndexItem_archive(idx[i].path, disk[idx[i].path])
    /\ IndexedPaths(idx) # IndexedPaths(added.before)
    /\ \E k \in 1..Len(added.paths) : added.paths[k] = LinkPath

(***************************************************************************)
(* Claims on the dates of a schedule.                                      *)
(***************************************************************************)
\* the values that a component of a date specification stands for, among
\* the values of a field of the datetimes
RECURSIVE ValuesOf(_, _)
ValuesOf(m, all) ==
    IF m.kind = "any" THEN all
    ELSE IF m.kind = "value" THEN {m.value} \cap all
    ELSE IF m.kind = "interval" THEN {v \in all : m.i_min <= v /\ v <= m.i_max}
    ELSE UNION {ValuesOf(m.dtms[i], all) : i \in 1..Len(m.dtms)}

FieldValues(f) == {dt[f] : dt \in DateTimes}

\* the component of the specification that stands for a field, or the
\* wildcard: the date components are the last of year, month, day, the
\* time components the first of hour, minute, second
ComponentOf(spec, f) ==
    LET nd == Len(spec.date)
        nt == Len(spec.time)
        kd == CHOOSE k \in 1..3 : <<"year", "month", "day">>[k] = f
        kt == CHOOSE k \in 1..3 : <<"hour", "minute", "second">>[k] = f
    IN  IF f = "weekday"
        THEN IF spec.weekday = <<>> THEN DTMatcherAny ELSE spec.weekday[1]
        ELSE IF f \in {"year", "month", "day"}
        THEN IF kd > 3 - nd THEN spec.date[kd - (3 - nd)] ELSE DTMatcherAny
        ELSE IF kt <= nt THEN spec.time[kt] ELSE DTMatcherAny

DateFields == {"weekday", "year", "month", "day", "hour", "minute", "second"}

\* a datetime has been tested against the ScheduleDate
Asked == asked.op = "contains"

\* C26: a datetime matches a ScheduleDate if and only if every one of the
\* seven fields weekday, year, month, day, hour, minute, second matches its
\* component: a wildcard, a value, an interval or a list of these; date
\* components left out on the left, time components left out on the right
\* and a weekday left out are wildcards.
C26_MatchesEveryField ==
    Asked =>
        (asked.contained
           <=> \A f \in DateFields :
                   asked.dt[f] \in ValuesOf(ComponentOf(schedule_date.spec, f),
                                            FieldValues(f)))

\* a datetime matches a date with the year and the month left out, a
\* weekday list and a time with the second left out
C26_Witness ==
    /\ Asked
    /\ asked.contained
    /\ Len(schedule_date.spec.date) = 1
    /\ Len(schedule_date.spec.time) = 2
    /\ schedule_date.spec.weekday # <<>>
    /\ schedule_date.spec.weekday[1].kind = "list"
    /\ asked.dt.second # 0

(***************************************************************************)
(* Claims on restoring from the archives of a chain.                       *)
(***************************************************************************)
\* the manifests to restore from after the run: those of the base archives
\* in their order, then that of the archive the run wrote, if it wrote one
RestoreSequence ==
    [i \in 1..Len(BasesOfRun) |-> base_manifest(backupdir, BasesOfRun[i].path).fileinfos]
    \o (IF run.written = <<>> THEN <<>> ELSE <<run.fileinfos>>)

\* the archives of the sequence that have an entry of the path
Holding(path) ==
    {i \in 1..Len(RestoreSequence) :
        \E e \in Range(RestoreSequence[i]) : e.path = path}

\* C28: after a cumulative or incremental run every path of the directory
\* is restored to its present state from the base archives in their order
\* and the new archive: the last archive of these that has the path has it
\* in a state that compares as MATCH with the present entry, also for a
\* path that changed after the full backup and changed back since.
C28_RestoreReproduces ==
    (DiffRun /\ run.raised = "None") =>
        \A fi \in Range(run.manifest.fileinfos) :
            /\ Holding(fi.path) # {}
            /\ \A e \in Range(RestoreSequence[Max(Holding(fi.path))]) :
                  e.path = fi.path => _match(e, fi, Checksums[1]) = "MATCH"

(***************************************************************************)
(* Claims on the base lists of every chain.                                *)
(***************************************************************************)
\* the positions in the index of the archives of a list, in its order
PositionsIn(list) ==
    [i \in 1..Len(list) |-> {j \in 1..Len(idx) : idx[j] = list[i]}]

\* the base list of node k has an archive, begins with the most recent
\* archive of the full schedule, has its archives at ascending positions of
\* the index, none twice, and only archives of node k and the nodes above
WellFormedBase(k, list) ==
    /\ list # <<>>
    /\ FullsOf(chain[1].name, idx) # {}
    /\ list[1] = idx[Max(FullsOf(chain[1].name, idx))]
    /\ \A i \in 1..Len(list) : PositionsIn(list)[i] # {}
    /\ \A i, j \in 1..Len(list) :
          i < j => \A a \in PositionsIn(list)[i], b \in PositionsIn(list)[j] : a < b
    /\ \A i \in 1..Len(list) :
          \E j \in 1..k : list[i].schedule = chain[j].name

\* C29: for every chain that begins with a full schedule and every index in
\* the order of the dates, the base list returned for a schedule that is not
\* full is not empty, begins with the most recent archive of the full
\* schedule, has no archive twice, has its archives at strictly ascending
\* positions of the index, and has only archives of the schedule itself and
\* of the schedules above it in the chain.
C29_BaseListShape ==
    \A k \in 1..Len(chain) :
        chain[k].cls # "full" =>
            LET r == get_base_archives(chain, k, idx)
            IN  r.raised = "None" => WellFormedBase(k, r.value)

\* such a list of three archives, two of them of the schedule asked, in an
\* index that holds an older full archive and archives that are left out
C29_Witness ==
    /\ call = "base"
    /\ schedule = 3
    /\ chain[3].cls = "incr"
    /\ base_archives.raised = "None"
    /\ Len(base_archives.value) = 3
    /\ base_archives.value[2].schedule = chain[3].name
    /\ Cardinality(FullsOf(chain[1].name, idx)) = 2
    /\ Len(idx) >= 6

(***************************************************************************)
(* Claims on diff --skip-dir-content.                                      *)
(***************************************************************************)
\* the diff command was run with --skip-dir-content
SkipDiff == diff # Pending /\ diff.op = "diff" /\ diff.raised = "None" /\ diff.skip_dir_content

PathOfTuple(t) == (IF t[2] # None THEN t[2] ELSE t[3]).path

\* the tuple reports a directory that one archive has and the other has not
OneSidedDir(t) ==
    \/ t[1] = "MISSING_A" /\ t[3].type = "d"
    \/ t[1] = "MISSING_B" /\ t[2].type = "d"

\* the directories reported as being in one archive only
ReportedDirs ==
    {PathOfTuple(diff.value[i]) :
        i \in {j \in 1..Len(diff.value) : OneSidedDir(diff.value[j])}}

NotBeneathReported(t) == \A d \in ReportedDirs : ~IsBelow(PathOfTuple(t), d)

\* C30: with --skip-dir-content, once a directory is reported as being in
\* one archive only, every entry of the diff that follows and lies beneath
\* it is left out, from whichever archive and of whatever status, and every
\* entry that is not beneath such a directory is reported as it is.
C30_SkipDirContent ==
    SkipDiff =>
        /\ diff.value = SelectSeq(diff_manifest(manifest_a, manifest_b, Checksums[1]),
                                  NotBeneathReported)
        /\ \A i, j \in 1..Len(diff.value) :
              (i < j /\ OneSidedDir(diff.value[i]))
                  => ~IsBelow(PathOfTuple(diff.value[j]), PathOfTuple(diff.value[i]))

\* a directory of the first archive only is reported, an entry of the other
\* archive and an entry of another status beneath it are left out, and an
\* entry after the directory is reported
C30_Witness ==
    /\ SkipDiff
    /\ \E i \in 1..Len(diff.value) :
          /\ diff.value[i][1] = "MISSING_B"
          /\ OneSidedDir(diff.value[i])
          /\ i < Len(diff.value)
          /\ \E t \in Range(diff_manifest(manifest_a, manifest_b, Checksums[1])) :
                t[1] = "MISSING_A" /\ IsBelow(PathOfTuple(t), PathOfTuple(diff.value[i]))
          /\ \E t \in Range(diff_manifest(manifest_a, manifest_b, Checksums[1])) :
                t[1] = "CONTENT" /\ IsBelow(PathOfTuple(t), PathOfTuple(diff.value[i]))
=============================================================================
